---- MODULE Spec2Model ----
(***************************************************************************)
(* Retrieval-and-answer orchestration core of the agentic RAG pipeline:    *)
(* the nodes of src/agentic/nodes.py wired by src/agentic/orchestrator.py  *)
(* and started from src/agentic/main.py.                                   *)
(*                                                                         *)
(* Texts are sequences of one-character strings.  Similarities are tenths  *)
(* (-10..10): k stands for the float nearest to k/10.  A confidence or a   *)
(* threshold is a float near a number of hundredths h, kept as the integer *)
(* Grain * h + d, where d is 0 for the float nearest to h/100 and places   *)
(* the other floats the confidence formula yields below (-1, -2) and above *)
(* (1, 2) it; the order of the integers is the order of the floats.        *)
(* Optional values are sequences of length at most one (<<>> is None).     *)
(* last_node is the node that ran last and searched lists the searches the *)
(* engine answered, as [strategy, count of chunks] records, steps counts   *)
(* the nodes that ran; the three are history kept for the properties, as   *)
(* are strategy_requested, the --strategy text the session was started     *)
(* with, and embeddings, what became of the embedding calls of the last    *)
(* evaluate_answer ("not_called", "ok" or "failed").                       *)
(* pc names the node to run next; "analyze_query_await" is analyze_query    *)
(* waiting for the reply of the classifier, "raised" the end of a run by an *)
(* exception no node caught, which err names by the node it left.           *)
(* candidates is what a node finds under the key "candidates" of the state  *)
(* it is given.                                                             *)
(* sessions, heap and results_log belong to the specification of two       *)
(* sessions side by side and are empty in the others.                      *)
(***************************************************************************)
EXTENDS Integers, Sequences, FiniteSets, TLC

VARIABLES pc, err, query, user_context, query_intent, current_strategy,
          strategies_tried, strategy_reasons, attempt_count,
          retrieved_documents, is_satisfied, retrieval_evaluation,
          generated_answer, answer_evaluation, answer_confidence, candidates,
          final_response, confidence_threshold, user_notifications,
          last_node, searched, steps,
          strategy_requested, embeddings, sessions, heap, results_log

vars == <<pc, err, query, user_context, query_intent, current_strategy,
          strategies_tried, strategy_reasons, attempt_count,
          retrieved_documents, is_satisfied, retrieval_evaluation,
          generated_answer, answer_evaluation, answer_confidence, candidates,
          final_response, confidence_threshold, user_notifications,
          last_node, searched, steps,
          strategy_requested, embeddings, sessions, heap, results_log>>

(***************************************************************************)
(* Bounds of the model.                                                    *)
(***************************************************************************)
\* The backend returns at most MaxHits chunks per search.
MaxHits == 2

(***************************************************************************)
(* Text helpers (Python str operations used by the nodes).                 *)
(***************************************************************************)
UpperChars == <<"A", "B", "C", "D", "E", "F", "G", "H", "I", "J", "K", "L", "M", "N", "O", "P", "Q", "R", "S", "T", "U", "V", "W", "X", "Y", "Z">>
LowerChars == <<"a", "b", "c", "d", "e", "f", "g", "h", "i", "j", "k", "l", "m", "n", "o", "p", "q", "r", "s", "t", "u", "v", "w", "x", "y", "z">>
DigitChars == <<"0", "1", "2", "3", "4", "5", "6", "7", "8", "9">>

Range(s) == {s[i] : i \in 1..Len(s)}

\* Characters of the range [\u4e00-\u9fff] the model uses
CJKChars == {"保", "險"}

\* \w of the re module (Unicode matching of str patterns: letters, digits
\* and ideographs, and the underscore), on the characters the model uses
IsWordChar(c) ==
    c \in Range(UpperChars) \cup Range(LowerChars) \cup Range(DigitChars) \cup {"_"} \cup CJKChars

IsSpace(c) == c \in {" "}

\* str.lower() on one character
LowerChar(c) ==
    IF c \in Range(UpperChars)
    THEN LowerChars[CHOOSE i \in 1..Len(UpperChars) : UpperChars[i] = c]
    ELSE c

\* str.lower()
Lower(s) == [i \in 1..Len(s) |-> LowerChar(s[i])]

RECURSIVE LStrip(_)
LStrip(s) == IF s # <<>> /\ IsSpace(Head(s)) THEN LStrip(Tail(s)) ELSE s

RECURSIVE RStrip(_)
RStrip(s) == IF s # <<>> /\ IsSpace(s[Len(s)]) THEN RStrip(SubSeq(s, 1, Len(s) - 1)) ELSE s

\* str.strip()
Strip(s) == RStrip(LStrip(s))

\* s[:n]
Take(s, n) == SubSeq(s, 1, IF Len(s) < n THEN Len(s) ELSE n)

\* str.replace(old, new) for single characters
ReplaceChar(s, old, new) == [i \in 1..Len(s) |-> IF s[i] = old THEN new ELSE s[i]]

\* str.split(): the maximal runs of non-whitespace characters, in order
RECURSIVE SplitFrom(_, _, _)
SplitFrom(s, i, cur) ==
    IF i > Len(s) THEN (IF cur = <<>> THEN <<>> ELSE <<cur>>)
    ELSE IF IsSpace(s[i])
         THEN (IF cur = <<>> THEN <<>> ELSE <<cur>>) \o SplitFrom(s, i + 1, <<>>)
         ELSE SplitFrom(s, i + 1, Append(cur, s[i]))

Split(s) == SplitFrom(s, 1, <<>>)

\* "t in a" for strings: t occurs in a as a contiguous substring
Contains(a, t) ==
    \E i \in 1..(Len(a) - Len(t) + 1) : SubSeq(a, i, i + Len(t) - 1) = t

\* s.endswith(t)
EndsWith(s, t) == Len(s) >= Len(t) /\ SubSeq(s, Len(s) - Len(t) + 1, Len(s)) = t

\* \b at the gap before position i (1..Len(s)+1) of s
Boundary(s, i) ==
    LET before == i > 1 /\ IsWordChar(s[i - 1])
        after  == i <= Len(s) /\ IsWordChar(s[i])
    IN  before # after

\* re.search(r"\b(w1|w2|...)\b", s) for the alternatives in words
SearchWords(words, s) ==
    \E w \in words : \E i \in 1..(Len(s) - Len(w) + 1) :
        /\ SubSeq(s, i, i + Len(w) - 1) = w
        /\ Boundary(s, i)
        /\ Boundary(s, i + Len(w))

\* re.search(r"\b\w+\.pdf\b", s)
SearchPdfName(s) ==
    \E i \in 2..(Len(s) - 3) :
        /\ SubSeq(s, i, i + 3) = <<".", "p", "d", "f">>
        /\ IsWordChar(s[i - 1])
        /\ Boundary(s, i + 4)
        /\ \E j \in 1..(i - 1) :
              /\ \A k \in j..(i - 1) : IsWordChar(s[k])
              /\ Boundary(s, j)

(***************************************************************************)
(* SearchStrategy (state.py) and the fixed retry order (nodes.py).         *)
(***************************************************************************)
\* The enum members, by value
SearchStrategy ==
    {"hybrid_search", "qa_pairs", "entity_search", "summary_search",
     "document_search", "hybrid_semantic", "faceted_search", "expanded_query",
     "branch_filter", "category_filter", "library_filter",
     "date_range_filter", "page_range_filter"}

\* The text of an enum value, as the command line spells it
StrategyText(s) ==
    CASE s = "hybrid_search"     -> <<"h", "y", "b", "r", "i", "d", "_", "s", "e", "a", "r", "c", "h">>
      [] s = "qa_pairs"          -> <<"q", "a", "_", "p", "a", "i", "r", "s">>
      [] s = "entity_search"     -> <<"e", "n", "t", "i", "t", "y", "_", "s", "e", "a", "r", "c", "h">>
      [] s = "summary_search"    -> <<"s", "u", "m", "m", "a", "r", "y", "_", "s", "e", "a", "r", "c", "h">>
      [] s = "document_search"   -> <<"d", "o", "c", "u", "m", "e", "n", "t", "_", "s", "e", "a", "r", "c", "h">>
      [] s = "hybrid_semantic"   -> <<"h", "y", "b", "r", "i", "d", "_", "s", "e", "m", "a", "n", "t", "i", "c">>
      [] s = "faceted_search"    -> <<"f", "a", "c", "e", "t", "e", "d", "_", "s", "e", "a", "r", "c", "h">>
      [] s = "expanded_query"    -> <<"e", "x", "p", "a", "n", "d", "e", "d", "_", "q", "u", "e", "r", "y">>
      [] s = "branch_filter"     -> <<"b", "r", "a", "n", "c", "h", "_", "f", "i", "l", "t", "e", "r">>
      [] s = "category_filter"   -> <<"c", "a", "t", "e", "g", "o", "r", "y", "_", "f", "i", "l", "t", "e", "r">>
      [] s = "library_filter"    -> <<"l", "i", "b", "r", "a", "r", "y", "_", "f", "i", "l", "t", "e", "r">>
      [] s = "date_range_filter" -> <<"d", "a", "t", "e", "_", "r", "a", "n", "g", "e", "_", "f", "i", "l", "t", "e", "r">>
      [] s = "page_range_filter" -> <<"p", "a", "g", "e", "_", "r", "a", "n", "g", "e", "_", "f", "i", "l", "t", "e", "r">>

ALL_TRY_STRATEGIES ==
    <<"qa_pairs", "hybrid_search", "summary_search", "document_search", "entity_search">>

\* state.get("current_strategy") or SearchStrategy.HYBRID_SEARCH
StrategyOrHybrid(cur) == IF cur = <<>> THEN "hybrid_search" ELSE cur[1]

\* main._parse_strategy: None for no text or an unknown value, else the member
_parse_strategy(s) ==
    IF s = <<>> THEN <<>>
    ELSE IF \E m \in SearchStrategy : StrategyText(m) = Lower(s)
         THEN <<CHOOSE m \in SearchStrategy : StrategyText(m) = Lower(s)>>
         ELSE <<>>

_fallback_strategy(current) ==
    IF \E i \in 1..Len(ALL_TRY_STRATEGIES) : ALL_TRY_STRATEGIES[i] = current
    THEN LET i == CHOOSE j \in 1..Len(ALL_TRY_STRATEGIES) : ALL_TRY_STRATEGIES[j] = current
         IN  ALL_TRY_STRATEGIES[((i - 1 + 1) % Len(ALL_TRY_STRATEGIES)) + 1]
    ELSE "hybrid_search"

(***************************************************************************)
(* The state of the graph (state.py, orchestrator.py).                     *)
(***************************************************************************)
\* The keys of AgentState
AgentStateKeys ==
    {"query", "session_id", "user_context", "conversation_history", "query_intent",
     "current_strategy", "strategies_tried", "strategy_reasons", "attempt_count",
     "retrieved_documents", "raw_search_results", "search_metadata",
     "retrieval_evaluation", "is_satisfied", "failure_reason", "evaluation_scores",
     "user_notifications", "generated_answer", "answer_evaluation", "answer_confidence",
     "final_response", "execution_metadata", "processing_time_ms", "confidence_threshold"}

\* A graph that hands every key of the returned dict to the next node
Channel_AnyKey(key, value, missing) == value

\* What the next node finds under key when a node returned value there:
\* StateGraph(AgentState) has one channel per key of AgentState and writes the
\* keys of the returned dict that have a channel; the state of the next node
\* is read from the channels, so another key is missing from it
Channel(key, value, missing) == IF key \in AgentStateKeys THEN value ELSE missing

(***************************************************************************)
(* Intent classification (nodes._heuristic_intent, analyze_query_node).    *)
(***************************************************************************)
QuestionWords == {<<"w", "h", "a", "t">>, <<"h", "o", "w">>, <<"w", "h", "e", "n">>, <<"w", "h", "e", "r", "e">>, <<"w", "h", "o">>, <<"w", "h", "y">>, <<"w", "h", "i", "c", "h">>}
DocumentWords == {<<"f", "o", "r", "m">>, <<"a", "p", "p", "l", "i", "c", "a", "t", "i", "o", "n">>, <<"p", "o", "l", "i", "c", "y">>, <<"g", "u", "i", "d", "e">>, <<"m", "a", "n", "u", "a", "l">>,
                  <<"b", "r", "o", "c", "h", "u", "r", "e">>, <<"d", "o", "c", "u", "m", "e", "n", "t">>}
EntityWords == {<<"h", "k", "$">>, <<"u", "s", "d">>, <<"p", "r", "e", "m", "i", "u", "m">>, <<"l", "e", "v", "y">>, <<"c", "r", "e", "d", "i", "t", " ", "c", "a", "r", "d">>, <<"v", "i", "s", "a">>,
                <<"m", "a", "s", "t", "e", "r", "c", "a", "r", "d">>, <<"m", "a", "c", "a", "u">>, <<"h", "o", "n", "g", " ", "k", "o", "n", "g">>}
MultiHopWords == {<<"c", "o", "m", "p", "a", "r", "e">>, <<"d", "i", "f", "f", "e", "r", "e", "n", "c", "e">>, <<"v", "e", "r", "s", "u", "s">>, <<"v", "s">>, <<"p", "r", "o", "s">>, <<"c", "o", "n", "s">>,
                  <<"c", "a", "l", "c", "u", "l", "a", "t", "e">>}
OverviewWords == {<<"o", "v", "e", "r", "v", "i", "e", "w">>, <<"s", "u", "m", "m", "a", "r", "y">>, <<"b", "r", "i", "e", "f">>, <<"q", "u", "i", "c", "k">>}

_heuristic_intent(q0) ==
    LET q == Lower(Strip(q0))
        multi == SearchWords(MultiHopWords, q)
        ents  == SearchWords(EntityWords, q)
    IN  [query_type |-> IF EndsWith(q, <<"?">>) \/ SearchWords(QuestionWords, q)
                        THEN <<"q", "u", "e", "s", "t", "i", "o", "n">> ELSE <<"s", "t", "a", "t", "e", "m", "e", "n", "t">>,
         complexity |-> IF multi THEN <<"h", "i", "g", "h">> ELSE IF ents THEN <<"m", "e", "d", "i", "u", "m">> ELSE <<"l", "o", "w">>,
         mentions_document |-> SearchWords(DocumentWords, q),
         has_entities |-> ents,
         requires_multi_hop |-> multi,
         aspects |-> <<>>,
         language |-> IF \E i \in 1..Len(q) : q[i] \in CJKChars THEN <<"t", "c">> ELSE <<"e", "n">>]

\* A JSON value of the classifier's reply, by what Python makes of it:
\* tag (null, bool, num, str, list, dict), truthy = bool(v), str = str(v),
\* items = list(v) where v is iterable: each item by its tag, bool(a) and
\* str(a)
JNull == [tag |-> "null", truthy |-> FALSE, str |-> <<"N", "o", "n", "e">>, items |-> <<>>]
JBool(b) == [tag |-> "bool", truthy |-> b, str |-> IF b THEN <<"T", "r", "u", "e">> ELSE <<"F", "a", "l", "s", "e">>,
             items |-> <<>>]
\* An item of a list that is a str
TextItem(t) == [tag |-> "str", truthy |-> t # <<>>, str |-> t]

JStr(t) == [tag |-> "str", truthy |-> t # <<>>, str |-> t,
            items |-> [i \in 1..Len(t) |-> TextItem(<<t[i]>>)]]
\* A number is given by its Python text t = str(v): "5", "0", "0.0", "2.5",
\* "1e-05", and "inf", "-inf", "nan" (json.loads of 1e400, -Infinity, NaN).
\* bool(v) is False for the zeros 0, 0.0, -0.0 only: the text has digits
\* before the exponent and none of them but 0
NumIsZero(t) ==
    LET exps   == {i \in 1..Len(t) : t[i] = "e"}
        last   == IF exps = {} THEN Len(t)
                  ELSE (CHOOSE i \in exps : \A j \in exps : i <= j) - 1
        digits == {i \in 1..last : t[i] \in Range(DigitChars)}
    IN  /\ digits # {}
        /\ \A i \in digits : t[i] = "0"

JNum(t) == [tag |-> "num", truthy |-> ~NumIsZero(t), str |-> t, items |-> <<>>]

\* An item of a list that is a number
NumItem(t) == [tag |-> "num", truthy |-> ~NumIsZero(t), str |-> t]

\* repr() of a str: single quotes, double quotes when the text holds a single
\* quote and no double quote; backslashes and the quote in use are escaped
RECURSIVE ReprChars(_, _)
ReprChars(t, quote) ==
    IF t = <<>> THEN <<>>
    ELSE (IF Head(t) \in {"\\", quote} THEN <<"\\", Head(t)>> ELSE <<Head(t)>>)
         \o ReprChars(Tail(t), quote)

ReprStr(t) ==
    LET quote == IF "'" \in Range(t) /\ "\"" \notin Range(t) THEN "\"" ELSE "'"
    IN  <<quote>> \o ReprChars(t, quote) \o <<quote>>

\* repr() of an item: of a number, its text
ReprItem(a) == IF a.tag = "str" THEN ReprStr(a.str) ELSE a.str

\* str() of a list: "[" + ", ".join(repr(a) for a in ts) + "]"
RECURSIVE JoinRepr(_, _)
JoinRepr(ts, i) ==
    IF i > Len(ts) THEN <<>>
    ELSE (IF i > 1 THEN <<",", " ">> ELSE <<>>) \o ReprItem(ts[i]) \o JoinRepr(ts, i + 1)

ListStr(ts) == <<"[">> \o JoinRepr(ts, 1) \o <<"]">>

JList(ts) == [tag |-> "list", truthy |-> ts # <<>>, str |-> ListStr(ts), items |-> ts]

\* str(parsed.get(k) or "").lower() or fallback
StrField(v, fallback) == IF v.truthy /\ Lower(v.str) # <<>> THEN Lower(v.str) ELSE fallback

\* bool(parsed.get(k)) if parsed.get(k) is not None else fallback
BoolField(v, fallback) == IF v.tag # "null" THEN v.truthy ELSE fallback

\* list(parsed.get("aspects") or []) raises TypeError for a truthy non-iterable
AspectsRaises(v) == v.truthy /\ v.tag \in {"bool", "num"}

AspectsField(v) == IF v.truthy THEN v.items ELSE <<>>

\* The sanitizing map of analyze_query_node for a parsed dict
SanitizedIntent(parsed, q) ==
    LET h == _heuristic_intent(q)
    IN  [query_type |-> StrField(parsed.query_type, h.query_type),
         complexity |-> StrField(parsed.complexity, h.complexity),
         mentions_document |-> BoolField(parsed.mentions_document, h.mentions_document),
         has_entities |-> BoolField(parsed.has_entities, h.has_entities),
         requires_multi_hop |-> BoolField(parsed.requires_multi_hop, h.requires_multi_hop),
         aspects |-> AspectsField(parsed.aspects),
         language |-> StrField(parsed.language, h.language)]

\* json.loads failed, or the reply is no str: parsed = {}
EmptyDict ==
    [query_type |-> JNull, complexity |-> JNull, mentions_document |-> JNull,
     has_entities |-> JNull, requires_multi_hop |-> JNull, aspects |-> JNull,
     language |-> JNull]

\* The intent analyze_query_node stores for an outcome of the classifier:
\* kind is "unavailable" (_safe_get_llm gave None), "raises" (ainvoke raised),
\* "malformed" (not JSON), "nondict" (JSON, but no object: .get raises) or
\* "dict" (a JSON object, in parsed)
AnalyzedIntent(llm, q) ==
    CASE llm.kind \in {"unavailable", "raises", "nondict"} -> _heuristic_intent(q)
      [] llm.kind = "malformed" -> SanitizedIntent(EmptyDict, q)
      [] llm.kind = "dict" ->
            IF AspectsRaises(llm.parsed.aspects)
            THEN _heuristic_intent(q)
            ELSE SanitizedIntent(llm.parsed, q)

(***************************************************************************)
(* StrategySelector.select (strategy_selector.py).                         *)
(***************************************************************************)
\* any(re.search(r"\b(overview|summary|brief|quick)\b", a or "") for a in aspects)
\* from the i-th item on: "match" at the first item the pattern is found in,
\* "raises" when an item before any match is truthy and no str (re.search
\* raises TypeError), else "none"
RECURSIVE AnyOverviewAspect(_, _)
AnyOverviewAspect(aspects, i) ==
    IF i > Len(aspects) THEN "none"
    ELSE LET a == aspects[i]
         IN  IF a.truthy /\ a.tag # "str" THEN "raises"
             ELSE IF a.truthy /\ SearchWords(OverviewWords, a.str) THEN "match"
             ELSE AnyOverviewAspect(aspects, i + 1)

HasOverviewAspect(intent) == AnyOverviewAspect(intent.aspects, 1) = "match"

\* What stands for the result of select when it raises
TypeError == <<"TypeError", "expected string or bytes-like object">>

ComplexIntent(intent) == intent.requires_multi_hop \/ Lower(intent.complexity) = <<"h", "i", "g", "h">>

\* The rules in the order of nodes._select_strategy: the question rule first
select_by_intent_QuestionFirst(q, intent_opt, ctx) ==
    IF intent_opt = <<>>
    THEN <<"hybrid_search", "No analyzed intent available; defaulting to hybrid search">>
    ELSE LET intent == intent_opt[1] IN
    IF Lower(intent.query_type) = <<"q", "u", "e", "s", "t", "i", "o", "n">>
    THEN <<"qa_pairs", "Direct question; preferring curated QA pairs">>
    ELSE IF intent.mentions_document
    THEN <<"document_search", "Document mention detected; using document search">>
    ELSE IF intent.has_entities
    THEN <<"entity_search", "Entity-like statement; using entity search">>
    ELSE IF HasOverviewAspect(intent)
    THEN <<"summary_search", "Overview aspect; using summary search">>
    ELSE <<"hybrid_search", "Defaulting to hybrid based on analyzed intent">>

\* The rules of select after the override: <<strategy, reason>>
select_by_intent(q, intent_opt, ctx) ==
    IF intent_opt = <<>>
    THEN <<"hybrid_search", "No analyzed intent available; defaulting to hybrid search">>
    ELSE LET intent == intent_opt[1] IN
    IF intent.mentions_document
    THEN IF ctx.filename # <<>> \/ SearchPdfName(q)
         THEN <<"document_search", "Document mention/filename hint detected; using document search">>
         ELSE <<"document_search", "Document mention detected; using document search">>
    ELSE IF Lower(intent.query_type) = <<"q", "u", "e", "s", "t", "i", "o", "n">>
    THEN IF intent.has_entities
         THEN <<"entity_search", "Question with entities; using entity search">>
         ELSE IF AnyOverviewAspect(intent.aspects, 1) = "raises"
         THEN TypeError
         ELSE IF HasOverviewAspect(intent)
         THEN <<"summary_search", "Overview aspect; using summary search">>
         ELSE IF ComplexIntent(intent)
         THEN <<"hybrid_search", "Complex/multi-hop question; using hybrid search">>
         ELSE <<"qa_pairs", "Direct question; preferring curated QA pairs">>
    ELSE IF intent.has_entities
    THEN <<"entity_search", "Entity-like statement; using entity search">>
    ELSE IF AnyOverviewAspect(intent.aspects, 1) = "raises"
    THEN TypeError
    ELSE IF HasOverviewAspect(intent)
    THEN <<"summary_search", "Overview aspect; using summary search">>
    ELSE IF ComplexIntent(intent)
    THEN <<"hybrid_search", "Complex statement; using hybrid search">>
    ELSE <<"hybrid_search", "Defaulting to hybrid based on analyzed intent">>

\* select without its first rule: the override is not looked at
select_IgnoreOverride(q, intent_opt, ctx, override) == select_by_intent(q, intent_opt, ctx)

\* select with no reason given for the override
select_NoOverrideReason(q, intent_opt, ctx, override) ==
    IF override # <<>> THEN <<override[1], "">>
    ELSE select_by_intent(q, intent_opt, ctx)

\* <<strategy, reason>>, or TypeError; override and intent are optional values
select(q, intent_opt, ctx, override) ==
    IF override # <<>> THEN <<override[1], "Using override strategy from initial state">>
    ELSE select_by_intent(q, intent_opt, ctx)

(***************************************************************************)
(* Document chunks and the search backend (strategy_engine.py).            *)
(* A field the backend did not select is absent: "None" for file_name,     *)
(* -1 for chunk_page_number, <<>> for lists and texts.                     *)
(***************************************************************************)
\* The chunks of the index
Hit(i) ==
    CASE i = 1 -> [file_name |-> "a.pdf", chunk_page_number |-> 1,
                   qa_questions |-> <<<<"f", "e", "e", "?">>>>,
                   qa_answers |-> <<<<"P", "a", "y", " ", "l", "e", "v", "y">>>>,
                   chunk_function_summary |-> <<>>,
                   chunk_content |-> <<" ", "l", "e", "v", "y", " ", "d", "u", "e", " ">>]
      [] i = 2 -> [file_name |-> "b.pdf", chunk_page_number |-> 2,
                   qa_questions |-> <<>>,
                   qa_answers |-> <<<<"n", "o">>, <<"p", "r", "e", "m", "i", "u", "m", " ", "c", "a", "r", "d">>>>,
                   chunk_function_summary |-> <<"c", "a", "r", "d", "s">>,
                   chunk_content |-> <<"c", "a", "r", "d">>]
      [] OTHER  -> [file_name |-> "c.pdf", chunk_page_number |-> i,
                    qa_questions |-> <<>>,
                    qa_answers |-> <<>>,
                    chunk_function_summary |-> <<>>,
                    chunk_content |-> <<"p", "l", "a", "n">>]

\* The chunk the backend ranks i-th for the query shape of a strategy
Rank(strategy, i) ==
    CASE strategy = "summary_search" /\ i <= 3 -> 4 - i
      [] strategy = "entity_search" /\ i <= 2  -> 3 - i
      [] OTHER -> i

\* The fields each engine method selects
SelectedFields(strategy) ==
    CASE strategy = "qa_pairs" ->
            {"qa_questions", "qa_answers", "file_name", "chunk_page_number"}
      [] strategy = "entity_search" ->
            {"file_name", "chunk_page_number", "chunk_function_summary"}
      [] strategy = "summary_search" ->
            {"file_name", "chunk_page_number", "chunk_function_summary"}
      [] strategy = "document_search" ->
            {"chunk_page_number", "chunk_content", "chunk_function_summary",
             "qa_questions", "qa_answers"}
      [] OTHER ->
            {"file_name", "chunk_content", "chunk_page_number",
             "chunk_function_summary", "qa_questions", "qa_answers"}

Project(doc, fields) ==
    [file_name |-> IF "file_name" \in fields THEN doc.file_name ELSE "None",
     chunk_page_number |-> IF "chunk_page_number" \in fields THEN doc.chunk_page_number ELSE -1,
     qa_questions |-> IF "qa_questions" \in fields THEN doc.qa_questions ELSE <<>>,
     qa_answers |-> IF "qa_answers" \in fields THEN doc.qa_answers ELSE <<>>,
     chunk_function_summary |-> IF "chunk_function_summary" \in fields
                                THEN doc.chunk_function_summary ELSE <<>>,
     chunk_content |-> IF "chunk_content" \in fields THEN doc.chunk_content ELSE <<>>]

\* What the engine method of a strategy returns when the backend finds n hits
EngineSearch(strategy, n) ==
    [i \in 1..n |-> Project(Hit(Rank(strategy, i)), SelectedFields(strategy))]

(***************************************************************************)
(* Answer generation (nodes._best_answer, generate_answer_node).           *)
(***************************************************************************)
SnippetLen == 600

BoostTerms ==
    {<<"c", "r", "e", "d", "i", "t">>, <<"c", "a", "r", "d">>, <<"a", "c", "c", "o", "u", "n", "t">>, <<"a", "u", "t", "h", "o", "r", "i", "z", "e">>, <<"a", "u", "t", "h", "o", "r", "i", "z", "a", "t", "i", "o", "n">>, <<"l", "e", "v", "y">>,
     <<"p", "r", "e", "m", "i", "u", "m">>, <<"p", "a", "y", "m", "e", "n", "t">>, <<"p", "a", "y", "m", "e", "n", "t", "s">>, <<"r", "e", "c", "u", "r", "r", "i", "n", "g">>, <<"r", "e", "n", "e", "w", "a", "l">>, <<"r", "e", "n", "e", "w", "a", "l", "s">>}

\* [t for t in query.strip().lower().replace("?", " ").split() if len(t) > 3]
QueryTokens(q) == SelectSeq(Split(ReplaceChar(Lower(Strip(q)), "?", " ")), LAMBDA t : Len(t) > 3)

\* token_hits of one answer
TokenHits(tokens, a) ==
    LET a_i == Lower(Strip(a))
    IN  Cardinality({i \in 1..Len(tokens) : Contains(a_i, tokens[i])})
        + 3 * Cardinality({t \in BoostTerms : Contains(a_i, t)})

\* The scan over the answers of one document, from answer i on
RECURSIVE ScanAnswers(_, _, _, _)
ScanAnswers(doc, i, tokens, best) ==
    IF i > Len(doc.qa_answers) THEN best
    ELSE LET hits == TokenHits(tokens, doc.qa_answers[i])
             nxt  == IF hits > best.score
                     THEN [score |-> hits,
                           answer |-> doc.qa_answers[i],
                           question |-> IF i <= Len(doc.qa_questions)
                                        THEN doc.qa_questions[i] ELSE <<>>,
                           file |-> doc.file_name,
                           page |-> doc.chunk_page_number]
                     ELSE best
         IN  ScanAnswers(doc, i + 1, tokens, nxt)

RECURSIVE ScanDocs(_, _, _, _)
ScanDocs(results, d, tokens, best) ==
    IF d > Len(results) THEN best
    ELSE ScanDocs(results, d + 1, tokens, ScanAnswers(results[d], 1, tokens, best))

\* _best_answer looking at the answers of the first chunk only
_best_answer_FirstDocOnly(results, q) ==
    ScanAnswers(results[1], 1, QueryTokens(q),
                [score |-> -1, answer |-> <<>>, question |-> <<>>, file |-> "None", page |-> -1])

_best_answer(results, q) ==
    ScanDocs(results, 1, QueryTokens(q),
             [score |-> -1, answer |-> <<>>, question |-> <<>>, file |-> "None", page |-> -1])

\* top.get("chunk_function_summary") or (top.get("chunk_content") or "").strip()[:600]
FallbackAnswer(top) ==
    IF top.chunk_function_summary # <<>> THEN top.chunk_function_summary
    ELSE Take(Strip(top.chunk_content), SnippetLen)

\* The text generate_answer_node stores
GeneratedAnswer(results, q) ==
    IF results = <<>> THEN <<>>
    ELSE LET best == _best_answer(results, q)
         IN  IF best.answer # <<>> THEN best.answer ELSE FallbackAnswer(results[1])

(***************************************************************************)
(* Answer evaluation (evaluate_answer_node).                               *)
(***************************************************************************)
\* (d.get("chunk_function_summary") or d.get("chunk_content") or "")[:600]
_citation_text(d) ==
    Take(IF d.chunk_function_summary # <<>> THEN d.chunk_function_summary ELSE d.chunk_content,
         SnippetLen)

\* [_citation_text(d) for d in citations[:3] if _citation_text(d)]
CitationLimit == 3

CitationTexts(citations) ==
    LET first == Take(citations, CitationLimit)
        texts == [i \in 1..Len(first) |-> _citation_text(first[i])]
    IN  SelectSeq(texts, LAMBDA t : t # <<>>)

\* The loop over e_ctx_list: the largest similarity above the initial 0.0
RECURSIVE MaxSim(_, _, _)
MaxSim(sims, i, acc) ==
    IF i > Len(sims) THEN acc
    ELSE MaxSim(sims, i + 1, IF sims[i] > acc THEN sims[i] ELSE acc)

\* One hundredth on the scale of confidences and thresholds
Grain == 10

\* The float nearest to h/100, as float("0.8") and the literals 0.0 and 1.0
Hundredths(h) == Grain * h

\* Rounding[sim_qa + 11][sim_ac_max + 11] for similarities of -10..10 tenths:
\* the place of the float 0.4 * sim_qa + 0.6 * sim_ac_max (IEEE 754 doubles,
\* the two products and the sum each rounded to nearest) among the floats the
\* expression yields for the same decimal value
\* (4 * sim_qa + 6 * sim_ac_max) / 100: 0 for the float nearest to the
\* decimal value, -1 and -2 for the first and the second float below it, 1
\* and 2 for the first and the second above it.  0.4 * -1.0 + 0.6 * 1.0 is
\* 0.19999999999999996 (-2) and 0.4 * -0.1 + 0.6 * 0.4 is
\* 0.19999999999999998 (-1), both below 0.2
Rounding ==
    <<<< 0, -1,  0, -1,  0,  0,  0, -1,  0,  0,  0,  0,  0, -1, -1, -1, -2, -2, -2,  0, -2>>,
      << 0, -1, -1,  0,  0,  0, -1,  0, -1, -1, -1, -1, -1, -1, -1, -1, -1, -1, -1,  0, -1>>,
      << 0, -1,  0,  0,  0, -1,  0,  0, -1, -1, -1, -1, -1, -1, -2, -2, -2, -2, -2, -1, -2>>,
      << 1, -1,  0,  0,  1,  0,  0,  1,  1,  1,  1,  1,  1,  1,  1,  1,  1,  0,  0,  1,  0>>,
      << 0,  0,  0,  1,  0,  0,  0,  0,  0,  0,  0,  0,  0,  0,  0,  0,  0,  0,  0,  1,  0>>,
      << 0,  0,  1,  0,  0,  0,  0,  0,  0,  0,  0,  0, -1, -1, -1, -1, -1, -1, -1,  0, -1>>,
      << 0, -1,  0, -1,  0,  0,  0,  0,  0, -1, -1, -1, -2, -2, -2, -2, -2, -1, -1,  0, -1>>,
      << 0,  0,  0,  0,  0,  0,  0,  0,  0,  0,  0,  0,  0,  0,  0,  0,  0,  0,  0,  1,  0>>,
      << 1, -1,  0,  0,  0,  0,  0,  0,  0,  0, -1, -1, -1, -1, -1, -1, -1, -1, -1,  0,  0>>,
      << 0, -1,  0,  1,  0,  1,  0,  0,  0,  0, -1, -1, -1, -1, -1,  0, -1,  0, -1,  0, -1>>,
      << 0,  0,  0,  0,  0,  0,  0,  0,  0,  0,  0,  0,  0,  0,  0,  0,  0,  0,  0,  0,  0>>,
      << 1,  0,  1,  0,  1,  0,  1,  1,  1,  1,  1,  0,  0,  0,  0, -1,  0, -1,  0,  1,  0>>,
      << 0,  0,  1,  1,  1,  1,  1,  1,  1,  1,  1,  0,  0,  0,  0,  0,  0,  0,  0,  1, -1>>,
      << 0, -1,  0,  0,  0,  0,  0,  0,  0,  0,  0,  0,  0,  0,  0,  0,  0,  0,  0,  0,  0>>,
      << 1,  0,  1,  1,  2,  2,  2,  2,  2,  1,  1,  1,  0,  0,  0,  0,  0,  1,  0,  1,  0>>,
      << 1,  0,  1,  1,  1,  1,  1,  1,  1,  0,  0,  0,  0,  0,  0,  0,  0,  0, -1,  0,  0>>,
      << 0, -1,  0,  0,  0,  0,  0,  0,  0,  0,  0,  0,  0,  0,  0,  0,  0, -1,  0,  0,  0>>,
      << 0, -1,  0,  0, -1, -1, -1, -1, -1, -1, -1, -1, -1, -1,  0,  0, -1,  0,  0,  1, -1>>,
      << 2,  1,  2,  2,  2,  2,  2,  1,  1,  1,  1,  1,  1,  0,  0,  1,  0,  0,  0,  1,  0>>,
      << 1,  0,  1,  1,  1,  1,  1,  1,  1,  1,  1,  1,  1,  0,  1,  0,  0,  0,  1,  1,  0>>,
      << 2,  0,  2,  2,  2,  1,  1,  1,  0,  0,  0,  0,  0,  1,  0,  0,  0,  1,  0,  1,  0>>>>

\* conf = max(0.0, min(1.0, 0.4 * sim_qa + 0.6 * sim_ac_max))
Confidence(sim_qa, sim_ac_max) ==
    LET raw == Hundredths(4 * sim_qa + 6 * sim_ac_max) + Rounding[sim_qa + 11][sim_ac_max + 11]
    IN  IF raw < Hundredths(0) THEN Hundredths(0)
        ELSE IF raw > Hundredths(100) THEN Hundredths(100)
        ELSE raw

\* sim_qa and sim_ac_max for an outcome of the embedding service:
\* emb.ok is FALSE when a call raised; emb.sims are the cosines of the answer
\* with the citation texts
Similarities(emb, texts) ==
    IF ~emb.ok THEN [sim_qa |-> 0, sim_ac_max |-> 0]
    ELSE [sim_qa |-> emb.sim_qa,
          sim_ac_max |-> IF texts # <<>> THEN MaxSim(SubSeq(emb.sims, 1, Len(texts)), 1, 0) ELSE 0]

\* The first retrieved chunk, or {} when there is none
TopFile(docs) == IF docs = <<>> THEN "None" ELSE docs[1].file_name
TopPage(docs) == IF docs = <<>> THEN -1 ELSE docs[1].chunk_page_number
TopSnippet(docs) == IF docs = <<>> THEN <<>> ELSE _citation_text(docs[1])

\* The snapshot appended to candidates
Candidate(strategy, conf, docs, ans) ==
    [strategy_used |-> strategy, confidence |-> conf, result_count |-> Len(docs),
     answer |-> ans, top_file |-> TopFile(docs), top_page |-> TopPage(docs),
     top_snippet |-> TopSnippet(docs), answer_length |-> Len(ans)]

(***************************************************************************)
(* Routing (should_continue_or_replan, should_accept_answer).              *)
(***************************************************************************)
DefaultThreshold == 80

\* is_good with >= for >
IsGood_NonStrict(results) == Len(results) >= 0

\* is_good = len(results) > 0
IsGood(results) == Len(results) > 0

\* The exhaustion check with > for >=
Exhausted_OffByOne(tried, attempts) ==
    \/ Cardinality(Range(tried)) > Len(ALL_TRY_STRATEGIES)
    \/ attempts > Len(ALL_TRY_STRATEGIES)

Exhausted(tried, attempts) ==
    \/ Cardinality(Range(tried)) >= Len(ALL_TRY_STRATEGIES)
    \/ attempts >= Len(ALL_TRY_STRATEGIES)

\* should_continue_or_replan without the exhaustion checks
should_continue_or_replan_NoExhaustion(satisfied, tried, attempts) ==
    IF satisfied THEN "satisfied" ELSE "retry"

\* should_continue_or_replan returning "max_attempts" for the attempts check
should_continue_or_replan_MaxAttempts(satisfied, tried, attempts) ==
    IF satisfied THEN "satisfied"
    ELSE IF attempts >= Len(ALL_TRY_STRATEGIES) THEN "max_attempts"
    ELSE IF Cardinality(Range(tried)) >= Len(ALL_TRY_STRATEGIES) THEN "all_done"
    ELSE "retry"

should_continue_or_replan(satisfied, tried, attempts) ==
    IF satisfied THEN "satisfied"
    ELSE IF Exhausted(tried, attempts) THEN "all_done"
    ELSE "retry"

\* float(state.get("confidence_threshold", 0.8) or 0.8)
EffectiveThreshold(thr) == IF thr = Hundredths(0) THEN Hundredths(DefaultThreshold) ELSE thr

\* should_accept_answer without the exhaustion checks
should_accept_answer_NoExhaustion(conf, thr, tried, attempts) ==
    IF conf >= EffectiveThreshold(thr) THEN "accept" ELSE "retry"

\* should_accept_answer without the comparison with the threshold
should_accept_answer_NoGate(conf, thr, tried, attempts) == "accept"

should_accept_answer(conf, thr, tried, attempts) ==
    IF conf >= EffectiveThreshold(thr) THEN "accept"
    ELSE IF Exhausted(tried, attempts) THEN "all_done"
    ELSE "retry"

\* The nodes of the graph (orchestrator.py); each runs whenever it is reached
GraphNodes ==
    {"analyze_query", "select_strategy", "execute_search", "evaluate_results",
     "notify_user", "replan_strategy", "generate_answer", "evaluate_answer",
     "return_partial", "return_response", "return_best"}

\* The conditional edges of the graph (orchestrator.py)
RouteAfterResults(outcome) ==
    CASE outcome = "satisfied"    -> "generate_answer"
      [] outcome = "retry"        -> "notify_user"
      [] outcome = "max_attempts" -> "return_partial"
      [] outcome = "all_done"     -> "return_best"

RouteAfterAnswer(outcome) ==
    CASE outcome = "accept"       -> "return_response"
      [] outcome = "retry"        -> "notify_user"
      [] outcome = "max_attempts" -> "return_partial"
      [] outcome = "all_done"     -> "return_best"

\* config={"recursion_limit": 60} of app.ainvoke
recursion_limit == 60

(***************************************************************************)
(* Exhaustion resolution (return_best_node).                               *)
(***************************************************************************)
\* The sort key reduced to the confidence
KeyGreater_ConfidenceOnly(c1, c2) == c1.confidence > c2.confidence

\* The sort key, compared as Python compares tuples
KeyGreater(c1, c2) ==
    \/ c1.confidence > c2.confidence
    \/ c1.confidence = c2.confidence /\ c1.result_count > c2.result_count
    \/ /\ c1.confidence = c2.confidence
       /\ c1.result_count = c2.result_count
       /\ c1.answer_length > c2.answer_length

\* cands.sort(key=..., reverse=True): descending, equal keys keep their order
RECURSIVE InsertDesc(_, _)
InsertDesc(sorted, c) ==
    IF sorted = <<>> THEN <<c>>
    ELSE IF KeyGreater(c, Head(sorted)) THEN <<c>> \o sorted
    ELSE <<Head(sorted)>> \o InsertDesc(Tail(sorted), c)

RECURSIVE SortDesc(_, _)
SortDesc(cands, i) ==
    IF i = 0 THEN <<>> ELSE InsertDesc(SortDesc(cands, i - 1), cands[i])

BestCandidate(cands) == Head(SortDesc(cands, Len(cands)))

\* state["candidates"] after return_best_node: the node sorts a copy,
\* list(state.get("candidates", [])), and does not store it
CandidatesAfterSort(cands) == cands

\* return_partial_node with the status of return_response_node
PartialResponse_StatusOk(docs, answer_opt, cur, attempts) ==
    [status |-> "ok",
     message |-> "Max attempts reached; returning best available results.",
     answer |-> IF answer_opt = <<>> THEN <<>> ELSE answer_opt[1],
     top_file |-> IF docs = <<>> THEN "None" ELSE docs[1].file_name,
     top_page |-> IF docs = <<>> THEN -1 ELSE docs[1].chunk_page_number,
     top_snippet |-> <<>>,
     result_count |-> Len(docs),
     strategy_used |-> StrategyOrHybrid(cur),
     attempts |-> attempts]

\* return_partial_node reporting one attempt more than the state counts
PartialResponse_OneMore(docs, answer_opt, cur, attempts) ==
    [status |-> "partial",
     message |-> "Max attempts reached; returning best available results.",
     answer |-> IF answer_opt = <<>> THEN <<>> ELSE answer_opt[1],
     top_file |-> TopFile(docs), top_page |-> TopPage(docs), top_snippet |-> TopSnippet(docs),
     result_count |-> Len(docs),
     strategy_used |-> StrategyOrHybrid(cur),
     attempts |-> attempts + 1]

PartialResponse(docs, answer_opt, cur, attempts) ==
    [status |-> "partial",
     message |-> "Max attempts reached; returning best available results.",
     answer |-> IF answer_opt = <<>> THEN <<>> ELSE answer_opt[1],
     top_file |-> TopFile(docs), top_page |-> TopPage(docs), top_snippet |-> TopSnippet(docs),
     result_count |-> Len(docs),
     strategy_used |-> StrategyOrHybrid(cur),
     attempts |-> attempts]

OkResponse(docs, answer_opt, cur, attempts) ==
    [status |-> "ok",
     message |-> "None",
     answer |-> IF answer_opt = <<>> THEN <<>> ELSE answer_opt[1],
     top_file |-> TopFile(docs), top_page |-> TopPage(docs), top_snippet |-> TopSnippet(docs),
     result_count |-> Len(docs),
     strategy_used |-> StrategyOrHybrid(cur),
     attempts |-> attempts]

BestResponse(best, tried) ==
    [status |-> "ok",
     message |-> "None",
     answer |-> best.answer,
     top_file |-> best.top_file, top_page |-> best.top_page, top_snippet |-> best.top_snippet,
     result_count |-> best.result_count,
     strategy_used |-> best.strategy_used,
     attempts |-> Len(tried)]

(***************************************************************************)
(* Inputs of a session (main.run_single) and outcomes of the collaborators.*)
(***************************************************************************)
\* --query
Queries == {<<"L", "e", "v", "y", "?">>, <<"h", "o", "w", " ", "t", "o", " ", "p", "a", "y">>, <<"c", "l", "a", "i", "m", " ", "f", "o", "r", "m">>}

\* --strategy: absent, a member in any case, a member outside the retry order,
\* no member at all
CliStrategies == {<<>>, <<"D", "o", "c", "u", "m", "e", "n", "t", "_", "S", "e", "a", "r", "c", "h">>, <<"h", "y", "b", "r", "i", "d", "_", "s", "e", "m", "a", "n", "t", "i", "c">>, <<"b", "o", "g", "u", "s">>}

\* CONFIDENCE_THRESHOLD, in hundredths
Thresholds == {0, 80}

\* The user_context main.py builds
CliUserContext ==
    [branch |-> <<>>, category |-> <<>>, library |-> <<>>, filename |-> <<>>, language |-> <<"e", "n">>]

\* Replies of the LLM classifier
OverviewReply ==
    [query_type |-> JStr(<<"S", "t", "a", "t", "e", "m", "e", "n", "t">>), complexity |-> JStr(<<"l", "o", "w">>),
     mentions_document |-> JBool(FALSE), has_entities |-> JBool(FALSE),
     requires_multi_hop |-> JBool(FALSE), aspects |-> JList(<<TextItem(<<"q", "u", "i", "c", "k", " ", "o", "v", "e", "r", "v", "i", "e", "w">>)>>),
     language |-> JStr(<<"e", "n">>)]

\* A reply whose aspects are no strings: {..., "aspects": [5], ...}
NumberAspectReply == [OverviewReply EXCEPT !.aspects = JList(<<NumItem(<<"5">>)>>)]

LlmOutcomes ==
    {[kind |-> "unavailable", parsed |-> EmptyDict],
     [kind |-> "raises", parsed |-> EmptyDict],
     [kind |-> "malformed", parsed |-> EmptyDict],
     [kind |-> "nondict", parsed |-> EmptyDict],
     [kind |-> "dict", parsed |-> OverviewReply],
     [kind |-> "dict", parsed |-> NumberAspectReply]}

\* Replies of the LLM classifier key by key: a key is missing or null (JNull),
\* holds a value of its domain in some letter case, or a value outside it
ReplyQueryTypes == {JNull, JStr(<<"Q", "u", "e", "s", "t", "i", "o", "n">>), JStr(<<"s", "t", "a", "t", "e", "m", "e", "n", "t">>), JStr(<<"c", "o", "m", "m", "a", "n", "d">>),
                    JList(<<TextItem(<<"A">>)>>)}
ReplyComplexities == {JNull, JStr(<<"H", "I", "G", "H">>), JStr(<<"l", "o", "w">>)}
ReplyFlags == {JNull, JBool(TRUE), JBool(FALSE), JNum(<<"0", ".", "0">>)}
ReplyAspects == {JNull, JList(<<TextItem(<<"q", "u", "i", "c", "k", " ", "o", "v", "e", "r", "v", "i", "e", "w">>)>>), JNum(<<"5">>),
                 JNum(<<"i", "n", "f">>), JList(<<NumItem(<<"5">>)>>),
                 JList(<<NumItem(<<"0">>), TextItem(<<"b", "r", "i", "e", "f">>), NumItem(<<"5">>)>>)}
ReplyLanguages == {JNull, JStr(<<"e", "n">>)}

ClassifierReplies ==
    {[kind |-> k, parsed |-> EmptyDict] : k \in {"unavailable", "raises", "malformed", "nondict"}}
    \cup {[kind |-> "dict", parsed |-> d] :
            d \in [query_type : ReplyQueryTypes, complexity : ReplyComplexities,
                   mentions_document : ReplyFlags, has_entities : ReplyFlags,
                   requires_multi_hop : ReplyFlags, aspects : ReplyAspects,
                   language : ReplyLanguages]}

\* Cosine similarities of one evaluation, in tenths: <<query with answer,
\* answer with each citation text>>
SimPairs == {<<-10, 10>>, <<10, 10>>}

\* Outcomes of the calls of OpenAIService in one evaluation over n citation
\* texts.  ok is FALSE when something raised into the node: get_config, the
\* constructor or generate_embedding after its retries (no similarity
\* computed yet), or the use of what a call returned (sim_qa and sims hold
\* what was computed before).  generate_embeddings_batch does not raise: when
\* its request fails on every attempt it returns zero vectors (batch_failed),
\* whose cosines are 0.  Otherwise all calls answer
EmbOutcomes(n) ==
    {[ok |-> FALSE, batch_failed |-> FALSE, sim_qa |-> 0, sims |-> [i \in 1..n |-> 0]]}
    \cup {[ok |-> FALSE, batch_failed |-> FALSE, sim_qa |-> p[1], sims |-> [i \in 1..n |-> 0]] :
            p \in SimPairs}
    \cup {[ok |-> TRUE, batch_failed |-> FALSE, sim_qa |-> p[1], sims |-> [i \in 1..n |-> p[2]]] :
            p \in SimPairs}
    \cup {[ok |-> TRUE, batch_failed |-> TRUE, sim_qa |-> p[1], sims |-> [i \in 1..n |-> 0]] :
            p \in IF n > 0 THEN SimPairs ELSE {}}

(***************************************************************************)
(* The session: Init is the initial_state of main.run_single at the entry  *)
(* point of the graph; pc names the node to run next.                      *)
(***************************************************************************)
InitSingle(queries, cli_strategies) ==
    /\ pc = "analyze_query"
    /\ err = "none"
    /\ query \in queries
    /\ user_context = CliUserContext
    /\ query_intent = <<>>
    /\ strategy_requested \in cli_strategies
    /\ current_strategy = _parse_strategy(strategy_requested)
    /\ strategies_tried = <<>>
    /\ strategy_reasons = <<>>
    /\ attempt_count = 0
    /\ retrieved_documents = <<>>
    /\ is_satisfied = FALSE
    /\ retrieval_evaluation = <<>>
    /\ generated_answer = <<>>
    /\ answer_evaluation = <<>>
    /\ answer_confidence = 0
    /\ candidates = <<>>
    /\ final_response = <<>>
    /\ confidence_threshold \in {Hundredths(t) : t \in Thresholds}
    /\ user_notifications = <<>>
    /\ last_node = "START"
    /\ searched = <<>>
    /\ steps = 0
    /\ embeddings = "not_called"

InitFrom(queries, cli_strategies) ==
    /\ InitSingle(queries, cli_strategies)
    /\ sessions = <<>>
    /\ heap = <<>>
    /\ results_log = <<>>

Init == InitFrom(Queries, CliStrategies)

\* analyze_query_node with a classifier, up to "await llm.ainvoke(msg)": the
\* message is built from the query and the node waits for the reply
AnalyzeQueryCall ==
    /\ pc = "analyze_query"
    /\ pc' = "analyze_query_await"
    /\ UNCHANGED <<strategy_requested, embeddings, sessions, heap, results_log, searched, err, query, user_context, query_intent, current_strategy, strategies_tried,
                   strategy_reasons, attempt_count, retrieved_documents, is_satisfied,
                   retrieval_evaluation, generated_answer, answer_evaluation,
                   answer_confidence, candidates, final_response, confidence_threshold,
                   user_notifications, last_node, steps>>

\* analyze_query_node from the outcome llm of the classifier on: the whole
\* node when there is no classifier (no await), else the part after the
\* await, which reads the query of the state again; then the edge to
\* select_strategy
AnalyzeQueryWith(llms) ==
    /\ \E llm \in llms :
          /\ IF llm.kind = "unavailable" THEN pc = "analyze_query"
                                          ELSE pc = "analyze_query_await"
          /\ query_intent' = <<AnalyzedIntent(llm, query)>>
    /\ pc' = "select_strategy"
    /\ last_node' = "analyze_query"
    /\ steps' = steps + 1
    /\ UNCHANGED <<strategy_requested, embeddings, sessions, heap, results_log, searched, err, query, user_context, current_strategy, strategies_tried,
                   strategy_reasons, attempt_count, retrieved_documents, is_satisfied,
                   retrieval_evaluation, generated_answer, answer_evaluation,
                   answer_confidence, candidates, final_response, confidence_threshold,
                   user_notifications>>

AnalyzeQuery == AnalyzeQueryWith(LlmOutcomes)

\* select_strategy_node, then the edge to execute_search
SelectStrategy ==
    /\ pc = "select_strategy"
    /\ LET r == select(query, query_intent, user_context, current_strategy)
       IN  /\ r # TypeError
           /\ strategies_tried' = Append(strategies_tried, r[1])
           /\ current_strategy' = <<r[1]>>
           /\ strategy_reasons' = (r[1] :> r[2]) @@ strategy_reasons
    /\ pc' = "execute_search"
    /\ last_node' = "select_strategy"
    /\ steps' = steps + 1
    /\ UNCHANGED <<strategy_requested, embeddings, sessions, heap, results_log, searched, err, query, user_context, query_intent, attempt_count,
                   retrieved_documents, is_satisfied, retrieval_evaluation,
                   generated_answer, answer_evaluation, answer_confidence, candidates,
                   final_response, confidence_threshold, user_notifications>>

\* select_strategy_node when selector.select raises: nothing catches it, the
\* run of the graph ends with the error
SelectStrategyRaises ==
    /\ pc = "select_strategy"
    /\ select(query, query_intent, user_context, current_strategy) = TypeError
    /\ pc' = "raised"
    /\ err' = "select_strategy"
    /\ last_node' = "select_strategy"
    /\ steps' = steps + 1
    /\ UNCHANGED <<strategy_requested, embeddings, sessions, heap, results_log, searched, query, user_context, query_intent, current_strategy, strategies_tried,
                   strategy_reasons, attempt_count, retrieved_documents, is_satisfied,
                   retrieval_evaluation, generated_answer, answer_evaluation,
                   answer_confidence, candidates, final_response, confidence_threshold,
                   user_notifications>>

\* execute_search_node leaving attempt_count as it is
CountAttempt_Keep(attempts) == attempts

\* state["attempt_count"] = int(state.get("attempt_count", 0)) + 1
CountAttempt(attempts) == attempts + 1

\* execute_search_node when the backend answers with n hits, then the edge to
\* evaluate_results
ExecuteSearch ==
    /\ pc = "execute_search"
    /\ \E n \in 0..MaxHits :
          /\ retrieved_documents' = EngineSearch(StrategyOrHybrid(current_strategy), n)
          /\ searched' = Append(searched, [strategy |-> StrategyOrHybrid(current_strategy),
                                           count |-> n])
    /\ attempt_count' = CountAttempt(attempt_count)
    /\ pc' = "evaluate_results"
    /\ last_node' = "execute_search"
    /\ steps' = steps + 1
    /\ UNCHANGED <<strategy_requested, embeddings, sessions, heap, results_log, err, query, user_context, query_intent, current_strategy,
                   strategies_tried, strategy_reasons, is_satisfied, retrieval_evaluation,
                   generated_answer, answer_evaluation, answer_confidence, candidates,
                   final_response, confidence_threshold, user_notifications>>

\* execute_search_node when the engine raises (SearchStrategyEngine() or
\* client.search): nothing catches it, the run of the graph ends with the error
ExecuteSearchRaises ==
    /\ pc = "execute_search"
    /\ pc' = "raised"
    /\ err' = "search_backend"
    /\ last_node' = "execute_search"
    /\ steps' = steps + 1
    /\ UNCHANGED <<strategy_requested, embeddings, sessions, heap, results_log, searched, query, user_context, query_intent, current_strategy, strategies_tried,
                   strategy_reasons, attempt_count, retrieved_documents, is_satisfied,
                   retrieval_evaluation, generated_answer, answer_evaluation,
                   answer_confidence, candidates, final_response, confidence_threshold,
                   user_notifications>>

\* evaluate_results_node, then the conditional edge by should_continue_or_replan
EvaluateResults ==
    /\ pc = "evaluate_results"
    /\ is_satisfied' = IsGood(retrieved_documents)
    /\ retrieval_evaluation' = <<[result_count |-> Len(retrieved_documents),
                                  strategy |-> StrategyOrHybrid(current_strategy)]>>
    /\ pc' = RouteAfterResults(
                should_continue_or_replan(is_satisfied', strategies_tried, attempt_count))
    /\ last_node' = "evaluate_results"
    /\ steps' = steps + 1
    /\ UNCHANGED <<strategy_requested, embeddings, sessions, heap, results_log, searched, err, query, user_context, query_intent, current_strategy,
                   strategies_tried, strategy_reasons, attempt_count, retrieved_documents,
                   generated_answer, answer_evaluation, answer_confidence, candidates,
                   final_response, confidence_threshold, user_notifications>>

\* notify_user_node, then the edge to replan_strategy
NotifyUser ==
    /\ pc = "notify_user"
    /\ user_notifications' = Append(user_notifications,
            [tried |-> Len(strategies_tried), current |-> StrategyOrHybrid(current_strategy)])
    /\ pc' = "replan_strategy"
    /\ last_node' = "notify_user"
    /\ steps' = steps + 1
    /\ UNCHANGED <<strategy_requested, embeddings, sessions, heap, results_log, searched, err, query, user_context, query_intent, current_strategy,
                   strategies_tried, strategy_reasons, attempt_count, retrieved_documents,
                   is_satisfied, retrieval_evaluation, generated_answer, answer_evaluation,
                   answer_confidence, candidates, final_response, confidence_threshold>>

\* replan_strategy_node keeping the current strategy
NextStrategy_KeepCurrent(cur, tried) == cur

\* replan_strategy_node always starting the fixed order again
NextStrategy_FirstOfOrder(cur, tried) == ALL_TRY_STRATEGIES[1]

\* replan_strategy_node picking the last untried strategy of the fixed order
NextStrategy_LastUntried(cur, tried) ==
    IF \E i \in 1..Len(ALL_TRY_STRATEGIES) : ALL_TRY_STRATEGIES[i] \notin Range(tried)
    THEN ALL_TRY_STRATEGIES[CHOOSE i \in 1..Len(ALL_TRY_STRATEGIES) :
            /\ ALL_TRY_STRATEGIES[i] \notin Range(tried)
            /\ \A j \in (i + 1)..Len(ALL_TRY_STRATEGIES) : ALL_TRY_STRATEGIES[j] \in Range(tried)]
    ELSE _fallback_strategy(cur)

\* The strategy replan_strategy_node picks: the first of the fixed order not yet
\* tried, else the cyclic successor of the current one
NextStrategy(cur, tried) ==
    IF \E i \in 1..Len(ALL_TRY_STRATEGIES) : ALL_TRY_STRATEGIES[i] \notin Range(tried)
    THEN ALL_TRY_STRATEGIES[CHOOSE i \in 1..Len(ALL_TRY_STRATEGIES) :
            /\ ALL_TRY_STRATEGIES[i] \notin Range(tried)
            /\ \A j \in 1..(i - 1) : ALL_TRY_STRATEGIES[j] \in Range(tried)]
    ELSE _fallback_strategy(cur)

\* The new strategy put in front of the list
AppendTried_Prepend(tried, nxt) == <<nxt>> \o tried

\* tried_list = list(strategies_tried); tried_list.append(nxt.value)
AppendTried(tried, nxt) == Append(tried, nxt)

\* replan_strategy_node, then the edge to execute_search
ReplanStrategy ==
    /\ pc = "replan_strategy"
    /\ LET cur == StrategyOrHybrid(current_strategy)
           nxt == NextStrategy(cur, strategies_tried)
       IN  /\ current_strategy' = <<nxt>>
           /\ strategies_tried' = AppendTried(strategies_tried, nxt)
           /\ strategy_reasons' = (nxt :> ("Fallback from " \o cur)) @@ strategy_reasons
    /\ pc' = "execute_search"
    /\ last_node' = "replan_strategy"
    /\ steps' = steps + 1
    /\ UNCHANGED <<strategy_requested, embeddings, sessions, heap, results_log, searched, err, query, user_context, query_intent, attempt_count,
                   retrieved_documents, is_satisfied, retrieval_evaluation,
                   generated_answer, answer_evaluation, answer_confidence, candidates,
                   final_response, confidence_threshold, user_notifications>>

\* generate_answer_node, then the edge to evaluate_answer
GenerateAnswer ==
    /\ pc = "generate_answer"
    /\ generated_answer' = <<GeneratedAnswer(retrieved_documents, query)>>
    /\ pc' = "evaluate_answer"
    /\ last_node' = "generate_answer"
    /\ steps' = steps + 1
    /\ UNCHANGED <<strategy_requested, embeddings, sessions, heap, results_log, searched, err, query, user_context, query_intent, current_strategy,
                   strategies_tried, strategy_reasons, attempt_count, retrieved_documents,
                   is_satisfied, retrieval_evaluation, answer_evaluation,
                   answer_confidence, candidates, final_response, confidence_threshold,
                   user_notifications>>

\* state.get("generated_answer") or ""
AnswerText(answer_opt) == IF answer_opt = <<>> THEN <<>> ELSE answer_opt[1]

\* evaluate_answer_node for an outcome emb of the embedding service, then the
\* conditional edge by should_accept_answer
EvaluateAnswerWith(emb) ==
    LET ans   == AnswerText(generated_answer)
        texts == CitationTexts(retrieved_documents)
        sim   == Similarities(emb, texts)
        conf  == Confidence(sim.sim_qa, sim.sim_ac_max)
    IN  /\ IF ans = <<>>
           THEN /\ answer_confidence' = 0
                /\ answer_evaluation' = <<[length |-> 0, citations_used |-> 0,
                                           sim_qa |-> 0, sim_ac_max |-> 0]>>
                /\ candidates' = Channel("candidates", candidates, <<>>)
           ELSE /\ answer_confidence' = conf
                /\ answer_evaluation' = <<[length |-> Len(ans), citations_used |-> Len(texts),
                                           sim_qa |-> sim.sim_qa,
                                           sim_ac_max |-> sim.sim_ac_max]>>
                /\ candidates' = Channel("candidates",
                        Append(candidates,
                               Candidate(StrategyOrHybrid(current_strategy), conf,
                                         retrieved_documents, ans)),
                        <<>>)
        /\ pc' = RouteAfterAnswer(
                    should_accept_answer(answer_confidence', confidence_threshold,
                                         strategies_tried, attempt_count))
        /\ embeddings' = IF ans = <<>> THEN "not_called"
                          ELSE IF emb.ok /\ ~emb.batch_failed THEN "ok" ELSE "failed"
        /\ last_node' = "evaluate_answer"
        /\ steps' = steps + 1
        /\ UNCHANGED <<strategy_requested, sessions, heap, results_log, searched, err, query, user_context, query_intent, current_strategy,
                       strategies_tried, strategy_reasons, attempt_count,
                       retrieved_documents, is_satisfied, retrieval_evaluation,
                       generated_answer, final_response, confidence_threshold,
                       user_notifications>>

EvaluateAnswer ==
    /\ pc = "evaluate_answer"
    /\ \E emb \in EmbOutcomes(Len(CitationTexts(retrieved_documents))) : EvaluateAnswerWith(emb)

\* return_response_node, then the edge to END
ReturnResponse ==
    /\ pc = "return_response"
    /\ final_response' = <<OkResponse(retrieved_documents, generated_answer,
                                      current_strategy, attempt_count)>>
    /\ pc' = "END"
    /\ last_node' = "return_response"
    /\ steps' = steps + 1
    /\ UNCHANGED <<strategy_requested, embeddings, sessions, heap, results_log, searched, err, query, user_context, query_intent, current_strategy,
                   strategies_tried, strategy_reasons, attempt_count, retrieved_documents,
                   is_satisfied, retrieval_evaluation, generated_answer, answer_evaluation,
                   answer_confidence, candidates, confidence_threshold, user_notifications>>

\* return_partial_node (the graph node) and return_best_node, which falls back to
\* return_partial_node when there is no candidate; then the edge to END
ReturnBestOrPartial ==
    /\ pc \in {"return_partial", "return_best"}
    /\ IF pc = "return_partial" \/ candidates = <<>>
       THEN /\ final_response' = <<PartialResponse(retrieved_documents, generated_answer,
                                                   current_strategy, attempt_count)>>
            /\ answer_confidence' = answer_confidence
            /\ candidates' = candidates
       ELSE LET best == BestCandidate(candidates)
            IN  /\ final_response' = <<BestResponse(best, strategies_tried)>>
                /\ answer_confidence' = best.confidence
                /\ candidates' = CandidatesAfterSort(candidates)
    /\ pc' = "END"
    /\ last_node' = pc
    /\ steps' = steps + 1
    /\ UNCHANGED <<strategy_requested, embeddings, sessions, heap, results_log, searched, err, query, user_context, query_intent, current_strategy,
                   strategies_tried, strategy_reasons, attempt_count, retrieved_documents,
                   is_satisfied, retrieval_evaluation, generated_answer, answer_evaluation,
                   confidence_threshold, user_notifications>>

Next ==
    \/ AnalyzeQueryCall
    \/ AnalyzeQuery
    \/ SelectStrategy
    \/ SelectStrategyRaises
    \/ ExecuteSearch
    \/ ExecuteSearchRaises
    \/ EvaluateResults
    \/ NotifyUser
    \/ ReplanStrategy
    \/ GenerateAnswer
    \/ EvaluateAnswer
    \/ ReturnResponse
    \/ ReturnBestOrPartial

Spec == Init /\ [][Next]_vars

\* app.ainvoke runs the node pc names, one after the other, until the graph
\* is at END or a node raises
SpecLive == Init /\ [][Next]_vars /\ WF_vars(Next)

(***************************************************************************)
(* Strategy selection alone: analyze_query and select_strategy for every    *)
(* --strategy value the command line can carry.                            *)
(***************************************************************************)
SelectQueries == Queries \cup {<<"c", "o", "m", "p", "a", "r", "e", " ", "a", ".", "p", "d", "f">>}

SelectCliStrategies == CliStrategies \cup {StrategyText(m) : m \in SearchStrategy}

InitSelect == InitFrom(SelectQueries, SelectCliStrategies)

NextSelect ==
    \/ AnalyzeQueryCall
    \/ AnalyzeQuery
    \/ SelectStrategy
    \/ SelectStrategyRaises

SpecSelect == InitSelect /\ [][NextSelect]_vars

(***************************************************************************)
(* Intent analysis and selection for every reply of the classifier, with   *)
(* no override.                                                            *)
(***************************************************************************)
InitIntent == InitFrom(SelectQueries, {<<>>})

NextIntent ==
    \/ AnalyzeQueryCall
    \/ AnalyzeQueryWith(ClassifierReplies)
    \/ SelectStrategy
    \/ SelectStrategyRaises

SpecIntent == InitIntent /\ [][NextIntent]_vars

(***************************************************************************)
(* return_best_node as a function of the state it is given: every list of  *)
(* up to MaxBest candidates under the key "candidates".  (In the graph the *)
(* node is given a state read from the channels of AgentState.)            *)
(***************************************************************************)
MaxBest == 3

BestStrategies == {"qa_pairs", "hybrid_search"}

\* Two confidences next to each other: 0.19999999999999996 and
\* 0.19999999999999998
BestConfidences == {Confidence(-10, 10), Confidence(-1, 4)}

BestAnswers == {<<"n", "o">>, <<"P", "a", "y", " ", "l", "e", "v", "y">>}

\* Snapshots evaluate_answer_node builds
BestCandidates ==
    {Candidate(s, c, EngineSearch(s, n), a) :
        s \in BestStrategies, c \in BestConfidences, n \in 1..MaxHits, a \in BestAnswers}

CandidateLists == UNION {[1..k -> BestCandidates] : k \in 1..MaxBest}

InitBest ==
    /\ pc = "return_best"
    /\ err = "none"
    /\ query = <<"L", "e", "v", "y", "?">>
    /\ user_context = CliUserContext
    /\ query_intent = <<_heuristic_intent(query)>>
    /\ strategy_requested = <<>>
    /\ current_strategy = <<ALL_TRY_STRATEGIES[Len(ALL_TRY_STRATEGIES)]>>
    /\ strategies_tried = ALL_TRY_STRATEGIES
    /\ strategy_reasons = <<>>
    /\ attempt_count = Len(ALL_TRY_STRATEGIES)
    /\ retrieved_documents = <<>>
    /\ is_satisfied = FALSE
    /\ retrieval_evaluation = <<>>
    /\ generated_answer = <<>>
    /\ answer_evaluation = <<>>
    /\ answer_confidence = 0
    /\ candidates \in CandidateLists
    /\ final_response = <<>>
    /\ confidence_threshold = Hundredths(DefaultThreshold)
    /\ user_notifications = <<>>
    /\ last_node = "evaluate_results"
    /\ searched = <<>>
    /\ steps = 0
    /\ embeddings = "not_called"
    /\ sessions = <<>>
    /\ heap = <<>>
    /\ results_log = <<>>

NextBest == ReturnBestOrPartial

SpecBest == InitBest /\ [][NextBest]_vars

(***************************************************************************)
(* Two sessions side by side (the rows of main.run_csv), their nodes       *)
(* interleaved in any order.  A session is the state dict of its row; the  *)
(* lists and dicts the nodes change in place (strategies_tried,            *)
(* strategy_reasons, user_notifications) are objects of the heap, and the  *)
(* state holds references to them.  results_log[i] lists what the          *)
(* collaborators returned to session i, node by node.                      *)
(***************************************************************************)
SessionIds == 1..2

\* The query column of the two rows
TwoQueries == <<<<"L", "e", "v", "y", "?">>, <<"h", "o", "w", " ", "t", "o", " ", "p", "a", "y">>>>

\* The object a literal of the initial_state of row i creates: one per row
Alloc_Shared(i, field) == <<0, field>>

Alloc(i, field) == <<i, field>>

\* The list a node of session i creates (state.get(...) or [], list(...))
Fresh(i, field) == <<i, field, "node">>

\* initial_state of row i
InitSession(i, threshold) ==
    [pc |-> "analyze_query",
     query |-> TwoQueries[i],
     user_context |-> CliUserContext,
     query_intent |-> <<>>,
     current_strategy |-> <<>>,
     strategies_tried |-> Alloc(i, "strategies_tried"),
     strategy_reasons |-> Alloc(i, "strategy_reasons"),
     attempt_count |-> 0,
     retrieved_documents |-> <<>>,
     is_satisfied |-> FALSE,
     retrieval_evaluation |-> <<>>,
     generated_answer |-> <<>>,
     answer_evaluation |-> <<>>,
     answer_confidence |-> 0,
     candidates |-> <<>>,
     final_response |-> <<>>,
     confidence_threshold |-> threshold,
     user_notifications |-> Alloc(i, "user_notifications")]

\* The objects the initial_state of row i refers to
InitHeap(i) ==
    (Alloc(i, "strategies_tried") :> <<>>)
    @@ (Alloc(i, "strategy_reasons") :> <<>>)
    @@ (Alloc(i, "user_notifications") :> <<>>)

\* What the collaborators can return to the node at pc: the classifier to
\* analyze_query, the backend to execute_search (a number of chunks), the
\* embedding service to evaluate_answer; the other nodes call none
TwoSims == <<10, 10>>

\* The numbers of chunks the backend returns to the searches of each row
TwoHits == <<{0, 1}, {1}>>

ResultsFor(i, s) ==
    CASE s.pc = "analyze_query" -> {[kind |-> "unavailable", parsed |-> EmptyDict]}
      [] s.pc = "execute_search" -> TwoHits[i]
      [] s.pc = "evaluate_answer" /\ AnswerText(s.generated_answer) # <<>> ->
            LET n == Len(CitationTexts(s.retrieved_documents))
            IN  {[ok |-> FALSE, sim_qa |-> 0, sims |-> [k \in 1..n |-> 0]],
                 [ok |-> TRUE, sim_qa |-> TwoSims[1], sims |-> [k \in 1..n |-> TwoSims[2]]]}
      [] OTHER -> {"none"}

\* The node at s.pc run on the state s of session i with the heap h and the
\* collaborator result r: the new state and the new heap
NodeStep(i, s, h, r) ==
    CASE s.pc = "analyze_query" ->
            [s |-> [s EXCEPT !.query_intent = <<AnalyzedIntent(r, s.query)>>,
                             !.pc = "select_strategy"],
             h |-> h]
      [] s.pc = "select_strategy" ->
            LET sel   == select(s.query, s.query_intent, s.user_context, s.current_strategy)
                old   == h[s.strategies_tried]
                tried == IF old # <<>> THEN s.strategies_tried
                         ELSE Fresh(i, "strategies_tried")
            IN  [s |-> [s EXCEPT !.strategies_tried = tried,
                                 !.current_strategy = <<sel[1]>>,
                                 !.pc = "execute_search"],
                 h |-> (tried :> Append(old, sel[1]))
                       @@ (s.strategy_reasons :> ((sel[1] :> sel[2]) @@ h[s.strategy_reasons]))
                       @@ h]
      [] s.pc = "execute_search" ->
            [s |-> [s EXCEPT !.retrieved_documents =
                                 EngineSearch(StrategyOrHybrid(s.current_strategy), r),
                             !.attempt_count = @ + 1,
                             !.pc = "evaluate_results"],
             h |-> h]
      [] s.pc = "evaluate_results" ->
            LET good == IsGood(s.retrieved_documents)
            IN  [s |-> [s EXCEPT !.is_satisfied = good,
                                 !.retrieval_evaluation =
                                     <<[result_count |-> Len(s.retrieved_documents),
                                        strategy |-> StrategyOrHybrid(s.current_strategy)]>>,
                                 !.pc = RouteAfterResults(
                                            should_continue_or_replan(
                                                good, h[s.strategies_tried], s.attempt_count))],
                 h |-> h]
      [] s.pc = "notify_user" ->
            [s |-> [s EXCEPT !.pc = "replan_strategy"],
             h |-> (s.user_notifications :>
                        Append(h[s.user_notifications],
                               [tried |-> Len(h[s.strategies_tried]),
                                current |-> StrategyOrHybrid(s.current_strategy)]))
                   @@ h]
      [] s.pc = "replan_strategy" ->
            LET cur   == StrategyOrHybrid(s.current_strategy)
                nxt   == NextStrategy(cur, h[s.strategies_tried])
                tried == Fresh(i, "strategies_tried")
            IN  [s |-> [s EXCEPT !.current_strategy = <<nxt>>,
                                 !.strategies_tried = tried,
                                 !.pc = "execute_search"],
                 h |-> (tried :> Append(h[s.strategies_tried], nxt))
                       @@ (s.strategy_reasons :>
                              ((nxt :> ("Fallback from " \o cur)) @@ h[s.strategy_reasons]))
                       @@ h]
      [] s.pc = "generate_answer" ->
            [s |-> [s EXCEPT !.generated_answer =
                                 <<GeneratedAnswer(s.retrieved_documents, s.query)>>,
                             !.pc = "evaluate_answer"],
             h |-> h]
      [] s.pc = "evaluate_answer" ->
            LET ans   == AnswerText(s.generated_answer)
                texts == CitationTexts(s.retrieved_documents)
                sim   == Similarities(r, texts)
                conf  == IF ans = <<>> THEN 0 ELSE Confidence(sim.sim_qa, sim.sim_ac_max)
            IN  [s |-> [s EXCEPT
                          !.answer_confidence = conf,
                          !.answer_evaluation =
                              IF ans = <<>>
                              THEN <<[length |-> 0, citations_used |-> 0,
                                      sim_qa |-> 0, sim_ac_max |-> 0]>>
                              ELSE <<[length |-> Len(ans), citations_used |-> Len(texts),
                                      sim_qa |-> sim.sim_qa, sim_ac_max |-> sim.sim_ac_max]>>,
                          !.candidates =
                              Channel("candidates",
                                  IF ans = <<>> THEN @
                                  ELSE Append(@, Candidate(StrategyOrHybrid(s.current_strategy),
                                                           conf, s.retrieved_documents, ans)),
                                  <<>>),
                          !.pc = RouteAfterAnswer(
                                     should_accept_answer(conf, s.confidence_threshold,
                                                          h[s.strategies_tried],
                                                          s.attempt_count))],
                 h |-> h]
      [] s.pc = "return_response" ->
            [s |-> [s EXCEPT !.final_response =
                                 <<OkResponse(s.retrieved_documents, s.generated_answer,
                                              s.current_strategy, s.attempt_count)>>,
                             !.pc = "END"],
             h |-> h]
      [] s.pc \in {"return_partial", "return_best"} ->
            IF s.pc = "return_partial" \/ s.candidates = <<>>
            THEN [s |-> [s EXCEPT !.final_response =
                                      <<PartialResponse(s.retrieved_documents,
                                                        s.generated_answer,
                                                        s.current_strategy, s.attempt_count)>>,
                                  !.pc = "END"],
                  h |-> h]
            ELSE LET best == BestCandidate(s.candidates)
                 IN  [s |-> [s EXCEPT !.final_response =
                                          <<BestResponse(best, h[s.strategies_tried])>>,
                                      !.answer_confidence = best.confidence,
                                      !.pc = "END"],
                      h |-> h]

\* A node of session i runs
SessionStep(i) ==
    /\ sessions[i].pc # "END"
    /\ \E r \in ResultsFor(i, sessions[i]) :
          LET w == NodeStep(i, sessions[i], heap, r)
          IN  /\ sessions' = [sessions EXCEPT ![i] = w.s]
              /\ heap' = w.h
              /\ results_log' = [results_log EXCEPT ![i] = Append(@, r)]
    /\ UNCHANGED <<pc, err, query, user_context, query_intent, current_strategy,
                   strategies_tried, strategy_reasons, attempt_count,
                   retrieved_documents, is_satisfied, retrieval_evaluation,
                   generated_answer, answer_evaluation, answer_confidence, candidates,
                   final_response, confidence_threshold, user_notifications,
                   last_node, searched, steps, strategy_requested, embeddings>>

\* The rows are read with the default CONFIDENCE_THRESHOLD
InitTwo ==
    /\ InitSingle({TwoQueries[1]}, {<<>>})
    /\ confidence_threshold = Hundredths(DefaultThreshold)
    /\ sessions = [i \in SessionIds |-> InitSession(i, confidence_threshold)]
    /\ heap = InitHeap(1) @@ InitHeap(2)
    /\ results_log = [i \in SessionIds |-> <<>>]

NextTwo == \E i \in SessionIds : SessionStep(i)

SpecTwo == InitTwo /\ [][NextTwo]_vars

(***************************************************************************)
(* Properties.                                                             *)
(***************************************************************************)
Terminal == pc = "END"

AllFive == Len(ALL_TRY_STRATEGIES)

NoDuplicates(s) == \A i, j \in 1..Len(s) : s[i] = s[j] => i = j

SearchedStrategies == [i \in 1..Len(searched) |-> searched[i].strategy]

\* C1: when the session has reached a terminal state, at most five strategies
\* have been tried and at most five searches have been executed.
C1_BoundedAttempts ==
    (Terminal \/ pc \in {"return_response", "return_partial", "return_best"})
        => Len(strategies_tried) <= 5 /\ attempt_count <= 5

C1_Witness == Terminal /\ Len(strategies_tried) = 5 /\ attempt_count = 5

\* C2 (as claimed): whatever the collaborators return, the session eventually
\* is at the end of the graph after return_response, return_partial or
\* return_best, with a final_response.
C2_EventuallyResponds ==
    <>(/\ Terminal
       /\ last_node \in {"return_response", "return_partial", "return_best"}
       /\ final_response # <<>>)

\* C3: a terminal response has status "ok" only when the returned
\* answer passed the confidence gate; a session that ran out of strategies
\* without such an answer ends with status "partial" and a message.
C3_OkOnlyWhenAccepted ==
    Terminal =>
        LET r == final_response[1]
        IN  /\ r.status = "ok" => answer_confidence >= confidence_threshold
            /\ last_node # "return_response" => r.status = "partial" /\ r.message # "None"

C3_Witness ==
    /\ Terminal
    /\ last_node = "return_best"
    /\ \E i \in 1..Len(searched) : searched[i].count > 0
    /\ answer_evaluation # <<>>
    /\ answer_confidence < confidence_threshold
    /\ final_response[1].status = "partial"
    /\ final_response[1].message # "None"

\* C4 (as claimed): a failure of the search backend never leaves the
\* orchestrator as an error; the step records an empty retrieval and the
\* session goes on: no run ends with the error of the search backend.
C4_SearchFailureDoesNotEscape == ~(pc = "raised" /\ err = "search_backend")

\* C5: after an answer evaluated below the threshold, with attempts left, the
\* session goes through notify_user and replan_strategy to a search with a
\* strategy that was neither tried nor searched before; return_response is
\* entered only from evaluate_answer with a confidence of at least the
\* threshold.
C5_RetryWithUntriedStrategy ==
    [][/\ (/\ pc = "evaluate_answer"
           /\ answer_confidence' < confidence_threshold
           /\ Cardinality(Range(strategies_tried)) < AllFive
           /\ attempt_count < AllFive) => pc' = "notify_user"
       /\ pc = "notify_user" => pc' = "replan_strategy"
       /\ pc = "replan_strategy" =>
             /\ pc' = "execute_search"
             /\ current_strategy'[1] \notin Range(strategies_tried)
             /\ strategies_tried' = Append(strategies_tried, current_strategy'[1])
       /\ (pc = "execute_search" /\ pc' = "evaluate_results") =>
             /\ searched' = Append(searched, searched'[Len(searched')])
             /\ searched'[Len(searched')].strategy = current_strategy[1]
             /\ current_strategy[1] \notin Range(SearchedStrategies)
       /\ pc' = "return_response" =>
             pc = "evaluate_answer" /\ answer_confidence' >= confidence_threshold
      ]_vars

C5_Witness ==
    /\ pc = "evaluate_results"
    /\ Len(searched) = 2
    /\ searched[1].count > 0
    /\ answer_evaluation # <<>>
    /\ answer_evaluation[1].length > 0
    /\ answer_confidence < confidence_threshold
    /\ searched[2].strategy # searched[1].strategy

\* C6: an empty retrieval is evaluated as not satisfied and leads to
\* notify_user and replan_strategy, or to the exhaustion terminal when no
\* attempt is left; generate_answer never runs on an empty retrieval.
C6_EmptyResultRetries ==
    [][/\ (pc = "evaluate_results" /\ retrieved_documents = <<>>) =>
             /\ is_satisfied' = FALSE
             /\ IF Cardinality(Range(strategies_tried)) < AllFive /\ attempt_count < AllFive
                THEN pc' = "notify_user"
                ELSE pc' \in {"return_best", "return_partial"}
       /\ pc = "notify_user" => pc' = "replan_strategy"
       /\ pc' = "generate_answer" => retrieved_documents' # <<>>
       /\ pc = "generate_answer" => retrieved_documents # <<>>
      ]_vars

C6_Witness ==
    /\ last_node = "notify_user"
    /\ pc = "replan_strategy"
    /\ retrieved_documents = <<>>
    /\ ~is_satisfied
    /\ generated_answer = <<>>

\* C7: a session whose searches all returned no chunk ends after five
\* searches with a response of status "partial".
AllSearchesEmpty == searched # <<>> /\ \A i \in 1..Len(searched) : searched[i].count = 0

C7_AllEmptyEndsPartial ==
    (Terminal /\ AllSearchesEmpty) =>
        /\ Len(searched) = AllFive
        /\ last_node = "return_best"
        /\ final_response[1].status = "partial"

C7_Witness == Terminal /\ AllSearchesEmpty /\ final_response # <<>>

\* C8: when return_best_node ran on a non-empty candidates list, the response is
\* taken from a candidate that no other candidate beats in confidence, then
\* result_count, then answer_length.
Beats(c, b) ==
    \/ c.confidence > b.confidence
    \/ c.confidence = b.confidence /\ c.result_count > b.result_count
    \/ /\ c.confidence = b.confidence
       /\ c.result_count = b.result_count
       /\ c.answer_length > b.answer_length

C8_ReturnBestIsMaximal ==
    (last_node = "return_best" /\ candidates # <<>>) =>
        \E i \in 1..Len(candidates) :
            LET b == candidates[i]
                r == final_response[1]
            IN  /\ \A j \in 1..Len(candidates) : ~Beats(candidates[j], b)
                /\ r.answer = b.answer
                /\ r.strategy_used = b.strategy_used
                /\ r.result_count = b.result_count

C8_Witness ==
    /\ last_node = "return_best"
    /\ Len(candidates) >= 3
    /\ \E i, j \in 1..Len(candidates) :
          /\ i < j
          /\ candidates[i].confidence = candidates[j].confidence
          /\ candidates[i].result_count < candidates[j].result_count
          /\ final_response[1].result_count = candidates[j].result_count
          /\ final_response[1].strategy_used = candidates[j].strategy_used

\* C9: with an override in the initial state, select_strategy makes exactly
\* that strategy the current one and the first one tried, whatever the intent.
C9_OverrideWins ==
    [][(pc = "select_strategy" /\ current_strategy # <<>>) =>
          /\ current_strategy' = current_strategy
          /\ strategies_tried' = <<current_strategy[1]>>
      ]_vars

C9_Witness ==
    /\ pc = "execute_search"
    /\ strategies_tried = <<"faceted_search">>
    /\ query_intent[1].mentions_document

\* C10: as long as not all five strategies of the retry order have been tried,
\* strategies_tried holds no strategy twice and no strategy was searched twice.
C10_NoDuplicateStrategies ==
    ~(Range(ALL_TRY_STRATEGIES) \subseteq Range(strategies_tried)) =>
        NoDuplicates(strategies_tried) /\ NoDuplicates(SearchedStrategies)

C10_Witness ==
    /\ Len(strategies_tried) = 4
    /\ Len(searched) = 4
    /\ ~(Range(ALL_TRY_STRATEGIES) \subseteq Range(strategies_tried))

\* C11 (as claimed): answer_confidence is between 0 and 1 in every state; right after an
\* evaluate_answer in which an embedding call failed it is exactly 0, and the
\* node has not raised: the session is at the next node of the graph.
C11_ConfidenceBounds ==
    /\ answer_confidence \in Hundredths(0)..Hundredths(100)
    /\ (last_node = "evaluate_answer" /\ embeddings = "failed") =>
          /\ answer_confidence = 0
          /\ err = "none"
          /\ pc \in GraphNodes

\* The searches of the session that returned chunks: each is followed by one
\* generate_answer and one evaluate_answer
AnswerCycles == Cardinality({i \in 1..Len(searched) : searched[i].count > 0})

\* C12 (as claimed): every evaluate_answer appends exactly one candidate,
\* whatever the answer, and nothing else changes the list: outside an answer
\* cycle the list is as long as the number of answer cycles run.
C12_OneCandidatePerEvaluation ==
    pc \notin {"evaluate_results", "generate_answer", "evaluate_answer", "raised"} =>
        Len(candidates) = AnswerCycles

\* C13 (as claimed): a session that ended by exhaustion has tried each of the
\* five strategies of the retry order, whatever strategy it was started with.
C13_ExhaustionTriedAllFive ==
    (Terminal /\ last_node \in {"return_best", "return_partial"}) =>
        Range(ALL_TRY_STRATEGIES) \subseteq Range(strategies_tried)

\* The --strategy text names no member of SearchStrategy
InvalidOverride == strategy_requested # <<>> /\ _parse_strategy(strategy_requested) = <<>>

\* C14 (as claimed): with a --strategy text that names no strategy, no node of
\* the graph runs.
C14_InvalidOverrideFailsFast == InvalidOverride => (steps = 0 /\ last_node = "START")

\* The strategy of the first matching rule, as the claim lists the rules
FirstMatchingRule(intent_opt) ==
    IF intent_opt = <<>> THEN "hybrid_search"
    ELSE LET intent == intent_opt[1] IN
         IF intent.mentions_document THEN "document_search"
         ELSE IF intent.has_entities THEN "entity_search"
         ELSE IF HasOverviewAspect(intent) THEN "summary_search"
         ELSE IF intent.requires_multi_hop \/ Lower(intent.complexity) = <<"h", "i", "g", "h">>
         THEN "hybrid_search"
         ELSE IF Lower(intent.query_type) = <<"q", "u", "e", "s", "t", "i", "o", "n">> THEN "qa_pairs"
         ELSE "hybrid_search"

\* C15: with no override, whenever select returns, it returns the strategy of
\* the first matching rule (no intent, document, entities, overview aspect,
\* multi-hop or high complexity, question, statement) for the intent
\* analyze_query stored, and hybrid_search when there is no intent.
C15_FirstMatchingRule ==
    /\ select(query, <<>>, user_context, <<>>)[1] = FirstMatchingRule(<<>>)
    /\ (last_node = "select_strategy" /\ pc # "raised") =>
          /\ strategies_tried = <<FirstMatchingRule(query_intent)>>
          /\ current_strategy = <<FirstMatchingRule(query_intent)>>

C15_Witness ==
    /\ last_node = "select_strategy"
    /\ Lower(query_intent[1].query_type) = <<"q", "u", "e", "s", "t", "i", "o", "n">>
    /\ query_intent[1].mentions_document
    /\ query_intent[1].has_entities
    /\ strategies_tried = <<"document_search">>

\* The intents select can be given: none, or a QueryIntent
SelectorIntents ==
    {<<>>} \cup
    {<<i>> : i \in [query_type : {<<"q", "u", "e", "s", "t", "i", "o", "n">>, <<"s", "t", "a", "t", "e", "m", "e", "n", "t">>}, complexity : {<<"l", "o", "w">>, <<"m", "e", "d", "i", "u", "m">>, <<"h", "i", "g", "h">>},
                    mentions_document : BOOLEAN, has_entities : BOOLEAN,
                    requires_multi_hop : BOOLEAN,
                    aspects : {<<>>, <<TextItem(<<"q", "u", "i", "c", "k", " ", "o", "v", "e", "r", "v", "i", "e", "w">>)>>}, language : {<<"e", "n">>}]}

\* C16: select gives a non-empty reason for every intent and override, and
\* every strategy in strategies_tried has a non-empty entry in
\* strategy_reasons after select_strategy and after every replan_strategy.
C16_EveryStrategyHasReason ==
    /\ pc = "select_strategy" =>
          \A intent_opt \in SelectorIntents :
              /\ select(query, intent_opt, user_context, current_strategy)[2] # ""
              /\ select(query, intent_opt, user_context, <<>>)[2] # ""
    /\ \A i \in 1..Len(strategies_tried) :
          /\ strategies_tried[i] \in DOMAIN strategy_reasons
          /\ strategy_reasons[strategies_tried[i]] # ""

C16_Witness ==
    /\ last_node = "replan_strategy"
    /\ Len(strategies_tried) = 3
    /\ strategy_requested # <<>>
    /\ strategy_reasons[strategies_tried[1]] = "Using override strategy from initial state"

\* C17 (as claimed): evaluate_answer is followed by return_response exactly
\* when the confidence is at least the threshold the caller set, a threshold
\* of 0 included.
C17_AcceptIffAtLeastThreshold ==
    last_node = "evaluate_answer" =>
        (pc = "return_response" <=> answer_confidence >= confidence_threshold)

\* A reply that is a JSON object with every key of QueryIntent
WellFormed(llm) ==
    /\ llm.kind = "dict"
    /\ \A k \in DOMAIN llm.parsed : llm.parsed[k].tag # "null"

\* C18 (as claimed): when the reply of the classifier is no JSON object with
\* all the keys of QueryIntent, the stored intent is the heuristic one in
\* every field.
C18_MalformedReplyIsNotTrusted ==
    [][(pc = "analyze_query" \/ pc = "analyze_query_await") =>
          \A llm \in ClassifierReplies :
              (~WellFormed(llm) /\ query_intent' = <<AnalyzedIntent(llm, query)>>)
                  => query_intent' = <<_heuristic_intent(query)>>
      ]_vars

\* C19 (as claimed): analyze_query does not fail and stores an intent whose
\* seven fields are in their domains.
C19_IntentInDomain ==
    /\ last_node = "analyze_query" => (pc = "select_strategy" /\ query_intent # <<>>)
    /\ query_intent # <<>> =>
          LET intent == query_intent[1]
          IN  /\ DOMAIN intent = {"query_type", "complexity", "mentions_document",
                                  "has_entities", "requires_multi_hop", "aspects",
                                  "language"}
              /\ intent.query_type \in {<<"q", "u", "e", "s", "t", "i", "o", "n">>, <<"s", "t", "a", "t", "e", "m", "e", "n", "t">>}
              /\ intent.complexity \in {<<"l", "o", "w">>, <<"m", "e", "d", "i", "u", "m">>, <<"h", "i", "g", "h">>}
              /\ intent.mentions_document \in BOOLEAN
              /\ intent.has_entities \in BOOLEAN
              /\ intent.requires_multi_hop \in BOOLEAN
              /\ intent.language \in {<<"e", "n">>, <<"t", "c">>}

\* The state of a session with its lists and dicts in place of the references
View(s, h) ==
    [s EXCEPT !.strategies_tried = h[s.strategies_tried],
              !.strategy_reasons = h[s.strategy_reasons],
              !.user_notifications = h[s.user_notifications]]

\* Session i run alone on the collaborator results of log, from the k-th on
RECURSIVE RunAlone(_, _, _, _)
RunAlone(i, w, log, k) ==
    IF k > Len(log) THEN View(w.s, w.h)
    ELSE RunAlone(i, NodeStep(i, w.s, w.h, log[k]), log, k + 1)

\* C20: with the nodes of two sessions interleaved in any order, the state of
\* each session (strategies_tried, candidates, attempt_count, final_response
\* and every other field) is the one it has when it runs alone with the same
\* collaborator results.
C20_SessionsIndependent ==
    \A i \in SessionIds :
        View(sessions[i], heap) =
            RunAlone(i, [s |-> InitSession(i, confidence_threshold), h |-> InitHeap(i)],
                     results_log[i], 1)

C20_Witness ==
    /\ sessions[1].pc = "replan_strategy"
    /\ sessions[1].attempt_count = 2
    /\ sessions[1].answer_evaluation # <<>>
    /\ sessions[1].answer_evaluation[1].length > 0
    /\ sessions[2].pc = "evaluate_answer"
    /\ sessions[2].attempt_count = 3
    /\ Len(heap[sessions[2].user_notifications]) = 2


(***************************************************************************)
(* Counters and lists of the retry loop.                                   *)
(***************************************************************************)
AtRouter == pc \in {"evaluate_results", "evaluate_answer"}

\* C21: whenever should_continue_or_replan or should_accept_answer is about to
\* be evaluated (the node before the conditional edge has the turn and changes
\* none of the three), len(strategies_tried), the number of distinct values of
\* strategies_tried and attempt_count are equal, so the two exhaustion
\* conditions agree.
C21_CountersAgree ==
    AtRouter =>
        /\ Len(strategies_tried) = Cardinality(Range(strategies_tried))
        /\ Len(strategies_tried) = attempt_count
        /\ (Cardinality(Range(strategies_tried)) >= AllFive) <=> (attempt_count >= AllFive)

C21_Witness ==
    /\ pc = "evaluate_answer"
    /\ attempt_count = AllFive
    /\ Cardinality(Range(strategies_tried)) = AllFive

FirstUntried(tried) ==
    ALL_TRY_STRATEGIES[CHOOSE i \in 1..Len(ALL_TRY_STRATEGIES) :
        /\ ALL_TRY_STRATEGIES[i] \notin Range(tried)
        /\ \A j \in 1..(i - 1) : ALL_TRY_STRATEGIES[j] \in Range(tried)]

HasUntried(tried) == \E i \in 1..Len(ALL_TRY_STRATEGIES) : ALL_TRY_STRATEGIES[i] \notin Range(tried)

\* The initial strategy followed by the other strategies in the fixed order
AttemptOrder(tried) ==
    tried = <<>> \/
    LET rest == SelectSeq(ALL_TRY_STRATEGIES, LAMBDA s : s # tried[1])
    IN  /\ Len(tried) - 1 <= Len(rest)
        /\ \A i \in 2..Len(tried) : tried[i] = rest[i - 1]

\* C22: a step of replan_strategy sets current_strategy to the first strategy
\* of the fixed order that is not in strategies_tried and appends it to
\* strategies_tried; after every step strategies_tried is the initial strategy
\* followed by the remaining strategies in the fixed order.
C22_ReplanPicksFirstUntried ==
    [][ /\ (pc = "replan_strategy" /\ HasUntried(strategies_tried)) =>
              /\ current_strategy' = <<FirstUntried(strategies_tried)>>
              /\ strategies_tried' = Append(strategies_tried, FirstUntried(strategies_tried))
        /\ AttemptOrder(strategies_tried') ]_vars

C22_Witness ==
    /\ last_node = "replan_strategy"
    /\ strategies_tried = <<ALL_TRY_STRATEGIES[4], ALL_TRY_STRATEGIES[1], ALL_TRY_STRATEGIES[2],
                            ALL_TRY_STRATEGIES[3], ALL_TRY_STRATEGIES[5]>>

\* C23: replan_strategy never has the turn with all five strategies of the
\* fixed order in strategies_tried, so it never takes the _fallback_strategy
\* branch.
C23_FallbackUnreachable ==
    pc = "replan_strategy" => HasUntried(strategies_tried)

C23_Witness ==
    /\ pc = "replan_strategy"
    /\ Len(strategies_tried) = AllFive - 1
    /\ attempt_count = AllFive - 1

\* C24: a step of execute_search adds exactly one to attempt_count and every
\* other step leaves it unchanged.
C24_AttemptCountStepsByOne ==
    [][ IF pc = "execute_search" /\ last_node' = "execute_search" /\ pc' = "evaluate_results"
        THEN attempt_count' = attempt_count + 1
        ELSE attempt_count' = attempt_count ]_vars

C24_Witness == last_node = "execute_search" /\ attempt_count = AllFive

IsPrefix(s, t) == Len(s) <= Len(t) /\ \A i \in 1..Len(s) : s[i] = t[i]

\* C25: every step leaves the old strategies_tried as a prefix of the new
\* one, and the i-th entry is the strategy the i-th search was executed with.
C25_TriedKeepsAttemptOrder ==
    [][ /\ IsPrefix(strategies_tried, strategies_tried')
        /\ Len(searched') <= Len(strategies_tried')
        /\ \A i \in 1..Len(searched') : searched'[i].strategy = strategies_tried'[i] ]_vars

C25_Witness ==
    /\ Len(searched) = AllFive
    /\ Len(strategies_tried) = AllFive
    /\ \A i \in 1..AllFive : searched[i].strategy = strategies_tried[i]


\* The list evaluate_answer_node stores under "candidates" for a non-empty
\* answer: the list it was given and the candidate of this evaluation
StoredCandidates ==
    Append(candidates,
           Candidate(StrategyOrHybrid(current_strategy), answer_confidence',
                     retrieved_documents, AnswerText(generated_answer)))

\* C26 (as claimed): a candidate once appended stays: the list a step leaves
\* (for evaluate_answer with an answer, the list with the appended candidate)
\* is an unchanged prefix of the candidates of the session after the step.
C26_CandidatesAppendOnly ==
    [][ IF pc = "evaluate_answer" /\ AnswerText(generated_answer) # <<>>
        THEN IsPrefix(StoredCandidates, candidates')
        ELSE IsPrefix(candidates, candidates') ]_vars

\* The (chunk, answer) positions of the retrieved chunks
QaPositions(docs) ==
    UNION {{<<d, i>> : i \in 1..Len(docs[d].qa_answers)} : d \in 1..Len(docs)}

\* C27: after generate_answer with retrieved chunks, if some chunk carries a
\* QA answer the generated answer is a QA answer whose boosted token-overlap
\* score no other QA answer of any retrieved chunk exceeds; if none does, it
\* is the first chunk's function summary or, without one, the first 600
\* characters of its stripped content.
C27_BestQaAnswerOrFallback ==
    (last_node = "generate_answer" /\ retrieved_documents # <<>>) =>
        LET docs   == retrieved_documents
            tokens == QueryTokens(query)
            pos    == QaPositions(docs)
        IN  IF pos # {}
            THEN \E p \in pos :
                    /\ generated_answer = <<docs[p[1]].qa_answers[p[2]]>>
                    /\ \A o \in pos :
                          TokenHits(tokens, docs[o[1]].qa_answers[o[2]])
                              <= TokenHits(tokens, docs[p[1]].qa_answers[p[2]])
            ELSE generated_answer =
                    <<IF docs[1].chunk_function_summary # <<>>
                      THEN docs[1].chunk_function_summary
                      ELSE Take(Strip(docs[1].chunk_content), 600)>>

C27_Witness ==
    /\ last_node = "generate_answer"
    /\ Len(retrieved_documents) = 2
    /\ retrieved_documents[1].qa_answers # <<>>
    /\ generated_answer = <<retrieved_documents[2].qa_answers[2]>>
    /\ generated_answer # <<retrieved_documents[1].qa_answers[1]>>

\* C28: a session ends with status "partial" exactly when it ends in
\* return_best with no candidate; the routing functions never answer
\* "max_attempts" and the return_partial node never has the turn.
C28_PartialIffExhaustedWithoutCandidate ==
    /\ pc # "return_partial"
    /\ last_node # "return_partial"
    /\ AtRouter =>
          /\ \A sat \in BOOLEAN :
                should_continue_or_replan(sat, strategies_tried, attempt_count) # "max_attempts"
          /\ \A conf \in {Hundredths(0), answer_confidence, Hundredths(100)} :
                should_accept_answer(conf, confidence_threshold, strategies_tried,
                                     attempt_count) # "max_attempts"
    /\ (Terminal /\ final_response # <<>>) =>
          (final_response[1].status = "partial"
              <=> (last_node = "return_best" /\ candidates = <<>>))

C28_Witness ==
    /\ Terminal
    /\ last_node = "return_best"
    /\ candidates = <<>>
    /\ attempt_count = AllFive
    /\ final_response # <<>>
    /\ final_response[1].status = "partial"

\* C29: in every terminal state with a response, final_response.attempts is
\* attempt_count and is len(strategies_tried).
C29_AttemptsReported ==
    (Terminal /\ final_response # <<>>) =>
        /\ final_response[1].attempts = attempt_count
        /\ final_response[1].attempts = Len(strategies_tried)

C29_Witness ==
    /\ Terminal
    /\ last_node = "return_best"
    /\ final_response # <<>>
    /\ final_response[1].attempts = AllFive
    /\ Len(strategies_tried) = AllFive

\* C30: no session runs more than 31 nodes (at most five searches and four
\* notifications among them), which is below the recursion limit of the
\* caller.
C30_StepsBelowRecursionLimit ==
    /\ steps <= 31
    /\ steps < recursion_limit
    /\ Len(searched) <= AllFive
    /\ Len(user_notifications) <= AllFive - 1

C30_Witness ==
    /\ Terminal
    /\ steps = 31
    /\ Len(searched) = AllFive
    /\ Len(user_notifications) = AllFive - 1

====
